---------------------------- MODULE Spec2Model ----------------------------
(***************************************************************************)
(* A model of the registration and ROI-projection engine of mesoscaler:    *)
(* landmark validation, affine estimation, alignment application,          *)
(* ROI projection and the persistence formats.                              *)
(*                                                                         *)
(* Numbers.  A floating-point value is modelled by the rational it         *)
(* denotes, [n, d] in lowest terms with d > 0; arithmetic is exact         *)
(* (rounding error of float64 arithmetic is not tracked).  A value that    *)
(* was stored into a float32 array and is not exactly representable in     *)
(* float32 carries rnd = TRUE: it denotes the float32 nearest to n/d,      *)
(* which is a different number than n/d itself.                             *)
(***************************************************************************)
EXTENDS Integers, Sequences, FiniteSets, TLC

--------------------------------------------------------------------------
(* Exact rational arithmetic *)

Abs(a) == IF a < 0 THEN -a ELSE a

RECURSIVE GCD(_, _)
GCD(a, b) == IF b = 0 THEN a ELSE GCD(b, a % b)

Rat(n, d) ==
    LET g == GCD(Abs(n), Abs(d))
        s == IF d < 0 THEN -1 ELSE 1
    IN  [n |-> s * (n \div g), d |-> s * (d \div g), rnd |-> FALSE]

Num(i) == [n |-> i, d |-> 1, rnd |-> FALSE]

\* sums and products are formed over reduced terms to keep them small
RAdd(a, b) ==
    LET g == GCD(a.d, b.d)
    IN  Rat(a.n * (b.d \div g) + b.n * (a.d \div g), (a.d \div g) * b.d)
RMul(a, b) ==
    LET g1 == GCD(Abs(a.n), b.d)
        g2 == GCD(Abs(b.n), a.d)
        h1 == IF g1 = 0 THEN 1 ELSE g1
        h2 == IF g2 = 0 THEN 1 ELSE g2
    IN  Rat((a.n \div h1) * (b.n \div h2), (a.d \div h2) * (b.d \div h1))
RNeg(a)    == Rat(-a.n, a.d)
RHalf(a)   == Rat(a.n, 2 * a.d)
RGreater(a, b) == a.n * b.d > b.n * a.d

RECURSIVE IsPow2(_)
IsPow2(k) == IF k = 1 THEN TRUE
             ELSE IF k % 2 = 1 THEN FALSE ELSE IsPow2(k \div 2)

\* the significand of an IEEE-754 binary32 value has 24 bits
Float32Significand == 16777216

\* a rational in lowest terms is a float32 value iff it is dyadic and its
\* odd numerator fits the 24-bit significand (exponent range not modelled)
IsFloat32(a) ==
    \/ a.n = 0
    \/ /\ a.d = 1
       /\ LET RECURSIVE Odd(_)
              Odd(k) == IF k % 2 = 0 THEN Odd(k \div 2) ELSE k
          IN  Odd(Abs(a.n)) < Float32Significand
    \/ /\ a.d > 1
       /\ IsPow2(a.d)
       /\ Abs(a.n) < Float32Significand

\* numpy: assignment into / construction of an array of dtype float32
Float32(a) == IF IsFloat32(a) THEN [a EXCEPT !.rnd = FALSE]
              ELSE [a EXCEPT !.rnd = TRUE]

--------------------------------------------------------------------------
(* affine.py: 2x3 matrices and the transform algebra *)

Matrix(a, b, c, d, e, f) == << <<a, b, c>>, <<d, e, f>> >>

\* np.linalg.lstsq on the block system of estimate(): the two rows of the
\* transform are the minimum-norm least-squares solutions of  X a = u  and
\* X a = v  with X = [x y 1].  With G = X^T X (symmetric, positive
\* semi-definite) and c = X^T u the solution is G^+ c, where
\*   rank 3: G^+ = adj(G) / det(G)
\*   rank 2: G^+ = ((e1^2 - e2) G - e1 G^2) / e2^2
\*   rank 1: G^+ = G / e1^2
\* (e1 = trace, e2 = sum of the principal 2x2 minors).
RECURSIVE SumSeq(_)
SumSeq(s) == IF Len(s) = 0 THEN 0 ELSE s[1] + SumSeq(Tail(s))

Mat3Mul(A, B) ==
    [i \in 1..3 |-> [j \in 1..3 |->
        A[i][1] * B[1][j] + A[i][2] * B[2][j] + A[i][3] * B[3][j]]]

Mat3Vec(A, v) ==
    [i \in 1..3 |-> A[i][1] * v[1] + A[i][2] * v[2] + A[i][3] * v[3]]

Minor2(A, i, j, k, l) == A[i][k] * A[j][l] - A[i][l] * A[j][k]

Adjugate(A) ==
    << << Minor2(A, 2, 3, 2, 3), -Minor2(A, 1, 3, 2, 3),  Minor2(A, 1, 2, 2, 3) >>,
       <<-Minor2(A, 2, 3, 1, 3),  Minor2(A, 1, 3, 1, 3), -Minor2(A, 1, 2, 1, 3) >>,
       << Minor2(A, 2, 3, 1, 2), -Minor2(A, 1, 3, 1, 2),  Minor2(A, 1, 2, 1, 2) >> >>

Det3(A) == A[1][1] * Minor2(A, 2, 3, 2, 3)
         - A[1][2] * Minor2(A, 2, 3, 1, 3)
         + A[1][3] * Minor2(A, 2, 3, 1, 2)

\* [num, den]: the pseudo-inverse of the Gram matrix G is num / den
PseudoInverse(G) ==
    LET det == Det3(G)
        e1  == G[1][1] + G[2][2] + G[3][3]
        e2  == Minor2(G, 1, 2, 1, 2) + Minor2(G, 1, 3, 1, 3) + Minor2(G, 2, 3, 2, 3)
        G2  == Mat3Mul(G, G)
    IN  IF det # 0 THEN [num |-> Adjugate(G), den |-> det]
        ELSE IF e2 # 0
             THEN [num |-> [i \in 1..3 |-> [j \in 1..3 |->
                              (e1 * e1 - e2) * G[i][j] - e1 * G2[i][j]]],
                   den |-> e2 * e2]
             ELSE [num |-> G, den |-> e1 * e1]

\* the least-squares fit with src and dst taken for one another
estimate_swapped(src, dst) ==
    LET N  == Len(src)
        X(i) == << dst[i][1].n, dst[i][2].n, 1 >>
        G  == [i \in 1..3 |-> [j \in 1..3 |->
                 SumSeq([k \in 1..N |-> X(k)[i] * X(k)[j]])]]
        cu == [i \in 1..3 |-> SumSeq([k \in 1..N |-> X(k)[i] * src[k][1].n])]
        cv == [i \in 1..3 |-> SumSeq([k \in 1..N |-> X(k)[i] * src[k][2].n])]
        P  == PseudoInverse(G)
        ru == Mat3Vec(P.num, cu)
        rv == Mat3Vec(P.num, cv)
    IN  << << Rat(ru[1], P.den), Rat(ru[2], P.den), Rat(ru[3], P.den) >>,
           << Rat(rv[1], P.den), Rat(rv[2], P.den), Rat(rv[3], P.den) >> >>

\* src, dst: sequences of <<x, y>> with integer-valued coordinates
estimate(src, dst) ==
    LET N  == Len(src)
        X(i) == << src[i][1].n, src[i][2].n, 1 >>
        G  == [i \in 1..3 |-> [j \in 1..3 |->
                 SumSeq([k \in 1..N |-> X(k)[i] * X(k)[j]])]]
        cu == [i \in 1..3 |-> SumSeq([k \in 1..N |-> X(k)[i] * dst[k][1].n])]
        cv == [i \in 1..3 |-> SumSeq([k \in 1..N |-> X(k)[i] * dst[k][2].n])]
        P  == PseudoInverse(G)
        ru == Mat3Vec(P.num, cu)
        rv == Mat3Vec(P.num, cv)
    IN  << << Rat(ru[1], P.den), Rat(ru[2], P.den), Rat(ru[3], P.den) >>,
           << Rat(rv[1], P.den), Rat(rv[2], P.den), Rat(rv[3], P.den) >> >>

RSub(a, b) == RAdd(a, RNeg(b))

\* the inverse of the linear part with the translation only negated
invert_linearOnly(M) ==
    LET D    == RSub(RMul(M[1][1], M[2][2]), RMul(M[1][2], M[2][1]))
        Dinv == IF D.n = 0 THEN Num(0) ELSE Rat(D.d, D.n)
    IN  << << RMul(M[2][2], Dinv), RMul(RNeg(M[1][2]), Dinv), RNeg(M[1][3]) >>,
           << RMul(RNeg(M[2][1]), Dinv), RMul(M[1][1], Dinv), RNeg(M[2][3]) >> >>

\* cv2.invertAffineTransform: a singular matrix (D = 0) yields the zero matrix
invert(M) ==
    LET D    == RSub(RMul(M[1][1], M[2][2]), RMul(M[1][2], M[2][1]))
        Dinv == IF D.n = 0 THEN Num(0) ELSE Rat(D.d, D.n)
        A11  == RMul(M[2][2], Dinv)
        A22  == RMul(M[1][1], Dinv)
        A12  == RMul(RNeg(M[1][2]), Dinv)
        A21  == RMul(RNeg(M[2][1]), Dinv)
        b1   == RSub(RNeg(RMul(A11, M[1][3])), RMul(A12, M[2][3]))
        b2   == RSub(RNeg(RMul(A21, M[1][3])), RMul(A22, M[2][3]))
    IN  << << A11, A12, b1 >>, << A21, A22, b2 >> >>

\* to_square: a 3-row matrix is returned as is; a compact one gets the row
\* [0, 0, 1] and is stacked into a float32 array
to_square(M) ==
    IF Len(M) = 3 THEN M
    ELSE [i \in 1..3 |-> [j \in 1..3 |->
            Float32(IF i <= 2 THEN M[i][j] ELSE IF j = 3 THEN Num(1) ELSE Num(0))]]

to_compact(M) == IF Len(M) = 3 THEN << M[1], M[2] >> ELSE M

\* warp_points: (pts | 1) @ to_square(warp).T, first two columns.
\* Arithmetic on a float32-rounded entry uses the rational it was rounded from.
warp_points(pts, warp) ==
    LET S == to_square(warp)
    IN  [k \in 1..Len(pts) |->
            [i \in 1..2 |->
                RAdd(RAdd(RMul(pts[k][1], S[i][1]), RMul(pts[k][2], S[i][2])),
                     RMul(Num(1), S[i][3]))]]

\* the matrix product A @ B of two 3x3 matrices
RMat3Mul(A, B) ==
    [i \in 1..3 |-> [j \in 1..3 |->
        RAdd(RAdd(RMul(A[i][1], B[1][j]), RMul(A[i][2], B[2][j])), RMul(A[i][3], B[3][j]))]]

Eye3 == << << Num(1), Num(0), Num(0) >>, << Num(0), Num(1), Num(0) >>, << Num(0), Num(0), Num(1) >> >>

\* the loop of compose: M = to_square(A) @ M for A in matrices
RECURSIVE ComposeFrom_reversed(_, _)
ComposeFrom_reversed(M, matrices) ==
    IF Len(matrices) = 0 THEN M
    ELSE ComposeFrom_reversed(RMat3Mul(M, to_square(matrices[1])), Tail(matrices))

RECURSIVE ComposeFrom(_, _)
ComposeFrom(M, matrices) ==
    IF Len(matrices) = 0 THEN M
    ELSE ComposeFrom(RMat3Mul(to_square(matrices[1]), M), Tail(matrices))

\* compose(*matrices): no argument gives the 3x3 identity, one argument is
\* returned in compact form
compose(matrices) ==
    IF Len(matrices) = 0 THEN Eye3
    ELSE IF Len(matrices) = 1 THEN to_compact(matrices[1])
    ELSE to_compact(ComposeFrom(Eye3, matrices))

--------------------------------------------------------------------------
(* landmarks/reference.py: the 9-name taxonomy, split 3/3/3 *)

LANDMARK_IDS == << "L1", "L2", "L3", "M4", "M5", "M6", "R7", "R8", "R9" >>

LANDMARK_NAMES ==
    [id \in {"L1", "L2", "L3", "M4", "M5", "M6", "R7", "R8", "R9"} |->
        CASE id = "L1" -> "left"
          [] id = "L2" -> "top left"
          [] id = "L3" -> "bottom left"
          [] id = "M4" -> "top center"
          [] id = "M5" -> "bregma"
          [] id = "M6" -> "lambda"
          [] id = "R7" -> "right"
          [] id = "R8" -> "top right"
          [] id = "R9" -> "bottom right"]

LEFT_LANDMARK_NAMES   == << "left", "top left", "bottom left" >>
MIDDLE_LANDMARK_NAMES == << "top center", "bregma", "lambda" >>
RIGHT_LANDMARK_NAMES  == << "right", "top right", "bottom right" >>

Range(s) == {s[i] : i \in DOMAIN s}

TaxonomyNames == [i \in 1..Len(LANDMARK_IDS) |-> LANDMARK_NAMES[LANDMARK_IDS[i]]]

\* defaults.py
LANDMARK_LIKELIHOOD_THRESHOLD == Rat(9999, 10000)

--------------------------------------------------------------------------
(* landmarks/base.py: Landmarks = (names, coords), one <<x, y, p>> row per name *)

NoValue == "None"

Landmarks(names, coords) == [names |-> names, coords |-> coords]

LenLandmarks(lm) == Len(lm.names)

\* first index of key in names (tuple.index)
IndexOf(names, key) == CHOOSE i \in 1..Len(names) :
                          /\ names[i] = key
                          /\ \A j \in 1..(i - 1) : names[j] # key

\* the sub-sequence of the elements s[i] with keep[i], in order
RECURSIVE SelectIdx(_, _)
SelectIdx(s, keep) ==
    IF Len(s) = 0 THEN << >>
    ELSE (IF keep[1] THEN << s[1] >> ELSE << >>) \o SelectIdx(Tail(s), Tail(keep))

\* Landmarks.ordered(keys): the landmarks named in keys, in the order of keys;
\* names the set does not hold are skipped
LandmarksOrdered(lm, keys) ==
    LET found == SelectIdx(keys, [i \in 1..Len(keys) |-> keys[i] \in Range(lm.names)])
    IN  Landmarks(found, [i \in 1..Len(found) |-> lm.coords[IndexOf(lm.names, found[i])]])

LandmarksLeft(lm)   == LandmarksOrdered(lm, LEFT_LANDMARK_NAMES \o MIDDLE_LANDMARK_NAMES)
LandmarksRight(lm)  == LandmarksOrdered(lm, MIDDLE_LANDMARK_NAMES \o RIGHT_LANDMARK_NAMES)
LandmarksMiddle(lm) == LandmarksOrdered(lm, MIDDLE_LANDMARK_NAMES)
LandmarksWithoutMiddle(lm) ==
    LET notMid == [i \in 1..Len(lm.names) |-> lm.names[i] \notin Range(MIDDLE_LANDMARK_NAMES)]
    IN  LandmarksOrdered(lm, SelectIdx(lm.names, notMid))

\* Landmarks.xy: coords[:, :2]
LandmarksXY(lm) == [i \in 1..Len(lm.coords) |-> << lm.coords[i][1], lm.coords[i][2] >>]

--------------------------------------------------------------------------
(* landmarks/alignment.py: Pairing *)

Pairing(t, r) == [target |-> t, reference |-> r]

PairingLen(pair) == LenLandmarks(pair.target)

\* only the target is put in the order of the keys
PairingOrdered_targetOnly(pair, keys) ==
    Pairing(LandmarksOrdered(pair.target, keys), pair.reference)

PairingOrdered(pair, keys) ==
    Pairing(LandmarksOrdered(pair.target, keys), LandmarksOrdered(pair.reference, keys))

PairingLeft(pair)   == PairingOrdered(pair, LEFT_LANDMARK_NAMES \o MIDDLE_LANDMARK_NAMES)
PairingRight(pair)  == PairingOrdered(pair, RIGHT_LANDMARK_NAMES \o MIDDLE_LANDMARK_NAMES)
PairingMiddle(pair) == PairingOrdered(pair, MIDDLE_LANDMARK_NAMES)
PairingWithoutMiddle(pair) ==
    LET names  == pair.target.names
        notMid == [i \in 1..Len(names) |-> names[i] \notin Range(MIDDLE_LANDMARK_NAMES)]
    IN  PairingOrdered(pair, SelectIdx(names, notMid))

ValidIndices_ge(t, r, threshold) ==
    LET n == IF Len(t.names) < Len(r.names) THEN Len(t.names) ELSE Len(r.names)
    IN  SelectIdx([i \in 1..n |-> i], [i \in 1..n |-> ~RGreater(threshold, t.coords[i][3])])

\* the indices i of zip(target, reference) with target[i].p > threshold
ValidIndices(t, r, threshold) ==
    LET n == IF Len(t.names) < Len(r.names) THEN Len(t.names) ELSE Len(r.names)
    IN  SelectIdx([i \in 1..n |-> i], [i \in 1..n |-> RGreater(t.coords[i][3], threshold)])

Alignment(l, r, sep) == [left |-> l, right |-> r, separate |-> sep]

\* the outcome of a call: a value, or the exception raised
Return(v)   == [err |-> << >>, val |-> v]
Raise(e, f) == [err |-> << e, f >>, val |-> NoValue]

\* an array: ndim 2 with rows of equally many columns, or ndim 1 with numbers
Array(ndim, rows) == [ndim |-> ndim, rows |-> rows]

\* shape[1] of a 2-dimensional array
Columns(array) == IF Len(array.rows) = 0 THEN 0 ELSE Len(array.rows[1])

\* array.size
Size(array) == IF array.ndim = 1 THEN Len(array.rows)
               ELSE Len(array.rows) * Columns(array)

\* the fit on the first rows of both arrays, as many as the shorter has
estimate_call_truncating(src, dst) ==
    LET N == IF Len(src.rows) < Len(dst.rows) THEN Len(src.rows) ELSE Len(dst.rows)
    IN  IF src.ndim # 2 \/ Columns(src) # 2
        THEN Raise("ValueError", "estimate")
        ELSE IF dst.ndim # 2 \/ Columns(dst) # 2
        THEN Raise("LinAlgError", "estimate")
        ELSE Return(estimate(SubSeq(src.rows, 1, N), SubSeq(dst.rows, 1, N)))

\* estimate() from the shapes on: the assertion on shape[0]; np.concatenate
\* with the (N, 1) ones, which needs a 2-dimensional src; the reshape of X_in
\* to (N, 2, 6), which needs 2 columns; and lstsq, which needs as many rows
\* in x_out = dst.reshape((-1, 1)) as the 2N of X_in
estimate_call(src, dst) ==
    IF Len(dst.rows) # Len(src.rows)
    THEN Raise("AssertionError", "estimate")
    ELSE IF src.ndim # 2
    THEN Raise("ValueError", "estimate")
    ELSE IF Columns(src) # 2
    THEN Raise("ValueError", "estimate")
    ELSE IF Size(dst) # 2 * Len(src.rows)
    THEN Raise("LinAlgError", "estimate")
    ELSE Return(estimate(src.rows, dst.rows))

(* validate_landmarks *)

validate_landmarks(t, r, opt_threshold) ==
    LET threshold == IF opt_threshold = << >>
                     THEN LANDMARK_LIKELIHOOD_THRESHOLD
                     ELSE opt_threshold[1]
        idx == ValidIndices(t, r, threshold)
        Pick(lm) == Landmarks([k \in 1..Len(idx) |-> lm.names[idx[k]]],
                              [k \in 1..Len(idx) |-> lm.coords[idx[k]]])
    IN  IF Len(idx) = 0
        THEN \* from_single_landmarks: np.stack of an empty list raises
             Raise("ValueError", "validate_landmarks")
        ELSE Return(Pairing(Pick(t), Pick(r)))

(* estimate_warp_matrix *)

Align_swapped(pair) == estimate(LandmarksXY(pair.target), LandmarksXY(pair.reference))

\* _align: affine.estimate(pair.reference.xy, pair.target.xy)
Align(pair) == estimate(LandmarksXY(pair.reference), LandmarksXY(pair.target))

SeparateDecision_ge2(pair, forced) ==
    IF forced = "None"
    THEN /\ PairingLen(PairingWithoutMiddle(PairingLeft(pair))) >= 2
         /\ PairingLen(PairingWithoutMiddle(PairingRight(pair))) >= 2
    ELSE forced = "True"

\* the separate_sides in force once its None default is resolved
SeparateDecision(pair, forced) ==
    IF forced = "None"
    THEN /\ PairingLen(PairingWithoutMiddle(PairingLeft(pair))) > 2
         /\ PairingLen(PairingWithoutMiddle(PairingRight(pair))) > 2
    ELSE forced = "True"

estimate_warp_matrix_per_side(pair, forced) ==
    LET left  == PairingLeft(pair)
        right == PairingRight(pair)
    IN  IF PairingLen(left) = 0 \/ PairingLen(right) = 0
        THEN Raise("IndexError", "estimate_warp_matrix")
        ELSE Return(Alignment(Align(left), Align(right), SeparateDecision(pair, forced)))

estimate_warp_matrix(pair, forced) ==
    LET left  == PairingLeft(pair)
        right == PairingRight(pair)
    IN  IF SeparateDecision(pair, forced)
        THEN IF PairingLen(left) = 0 \/ PairingLen(right) = 0
             THEN \* .xy of the 1-d empty coords of Landmarks.ordered raises
                  Raise("IndexError", "estimate_warp_matrix")
             ELSE Return(Alignment(Align(left), Align(right), TRUE))
        ELSE LET warp == Align(pair)
             IN  Return(Alignment(warp, warp, FALSE))

(* Landmarks.affine_warp, Alignment.warp_points *)

LandmarksAffineWarp(lm, warp) ==
    IF LenLandmarks(lm) = 0 THEN lm
    ELSE LET xy == warp_points(LandmarksXY(lm), warp)
         IN  Landmarks(lm.names,
                       [k \in 1..Len(lm.coords) |-> << xy[k][1], xy[k][2], lm.coords[k][3] >>])

\* (mleft.coords + mright.coords) / 2, over all three columns
AverageCoords(a, b) ==
    [k \in 1..Len(a) |-> [c \in 1..3 |-> RHalf(RAdd(a[k][c], b[k][c]))]]

AlignmentWarpPoints_leftOnly(a, lm) ==
    LET left   == LandmarksAffineWarp(LandmarksWithoutMiddle(LandmarksLeft(lm)), a.left)
        right  == LandmarksAffineWarp(LandmarksWithoutMiddle(LandmarksRight(lm)), a.right)
        middle == LandmarksAffineWarp(LandmarksMiddle(lm), a.left)
        names  == left.names \o middle.names \o right.names
    IN  IF Len(names) = 0
        THEN Raise("ValueError", "warp_points")
        ELSE Return(Landmarks(names, left.coords \o middle.coords \o right.coords))

AlignmentWarpPoints(a, lm) ==
    LET left   == LandmarksAffineWarp(LandmarksWithoutMiddle(LandmarksLeft(lm)), a.left)
        right  == LandmarksAffineWarp(LandmarksWithoutMiddle(LandmarksRight(lm)), a.right)
        mid    == LandmarksMiddle(lm)
        middle == IF a.separate = TRUE
                  THEN Landmarks(mid.names,
                                 AverageCoords(LandmarksAffineWarp(mid, a.left).coords,
                                               LandmarksAffineWarp(mid, a.right).coords))
                  ELSE LandmarksAffineWarp(mid, a.left)
        names  == left.names \o middle.names \o right.names
    IN  IF Len(names) = 0
        THEN \* from_single_landmarks: np.stack of an empty list raises
             Raise("ValueError", "warp_points")
        ELSE Return(Landmarks(names, left.coords \o middle.coords \o right.coords))

(* Alignment.invert *)

AlignmentInvert_perSide(a) ==
    Return(Alignment(invert(a.left), invert(a.right), a.separate))

AlignmentInvert(a) ==
    IF a.separate # FALSE
    THEN Raise("ValueError", "invert")
    ELSE LET inv == invert(a.left)
         IN  Return(Alignment(inv, inv, FALSE))

(* Alignment.to_dict / from_dict, write_alignment_table / load_alignment_table *)

Sides   == << "left", "right" >>
RowKeys == << "x", "y" >>
ColKeys == << "x", "y", "c" >>

AlignmentKeys ==
    {"is_separate"} \cup
    {side \o "_" \o RowKeys[i] \o ColKeys[j] : side \in Range(Sides), i \in 1..2, j \in 1..3}

\* to_dict: update_ stores warp[0, 0] as <side>_xx, warp[0, 1] as <side>_xy, ...
AlignmentToDict(a) ==
    [k \in AlignmentKeys |->
        CASE k = "is_separate" -> a.separate
          [] k = "left_xx"  -> a.left[1][1]
          [] k = "left_xy"  -> a.left[1][2]
          [] k = "left_xc"  -> a.left[1][3]
          [] k = "left_yx"  -> a.left[2][1]
          [] k = "left_yy"  -> a.left[2][2]
          [] k = "left_yc"  -> a.left[2][3]
          [] k = "right_xx" -> a.right[1][1]
          [] k = "right_xy" -> a.right[1][2]
          [] k = "right_xc" -> a.right[1][3]
          [] k = "right_yx" -> a.right[2][1]
          [] k = "right_yy" -> a.right[2][2]
          [] k = "right_yc" -> a.right[2][3]]

Reconstruct_transposed(dct, side) ==
    [i \in 1..2 |-> [j \in 1..3 |->
        IF j = 3 THEN Float32(dct[side \o "_" \o RowKeys[i] \o ColKeys[j]])
        ELSE Float32(dct[side \o "_" \o RowKeys[j] \o ColKeys[i]])]]

\* reconstruct_: a float32 (2, 3) array filled from <side>_<row><col>
Reconstruct(dct, side) ==
    [i \in 1..2 |-> [j \in 1..3 |-> Float32(dct[side \o "_" \o RowKeys[i] \o ColKeys[j]])]]

AlignmentFromDict(dct) ==
    Alignment(Reconstruct(dct, "left"), Reconstruct(dct, "right"), dct["is_separate"])

\* the CSV file: a header line and one line of cells per row.  A number is
\* written as the shortest decimal text that reads back as the same double
\* and is modelled by its value; a boolean is written as "True" / "False".
ParseCell(column, text) == IF column = "is_separate" THEN text = "True" ELSE text

\* the columns of pandas.DataFrame(list of dicts): the keys in insertion order
AlignmentColumns ==
    << "is_separate",
       "left_xx", "left_xy", "left_xc", "left_yx", "left_yy", "left_yc",
       "right_xx", "right_xy", "right_xc", "right_yx", "right_yy", "right_yc" >>

AlignmentTableCsv(als) ==
    LET dicts == [i \in 1..Len(als) |-> AlignmentToDict(als[i])]
        cols  == IF Len(als) = 0 THEN << >> ELSE AlignmentColumns
    IN  [header |-> cols,
         lines  |-> [i \in 1..Len(als) |->
                       [c \in 1..Len(cols) |->
                          IF cols[c] = "is_separate"
                          THEN (IF dicts[i][cols[c]] THEN "True" ELSE "False")
                          ELSE dicts[i][cols[c]]]]]

load_alignment_table(csv) ==
    IF Len(csv.header) = 0
    THEN \* pandas.read_csv: no columns to parse from file
         Raise("EmptyDataError", "load_alignment_table")
    ELSE LET RowDict(i) ==
                 [k \in Range(csv.header) |->
                     ParseCell(k, csv.lines[i][IndexOf(csv.header, k)])]
         IN  Return([i \in 1..Len(csv.lines) |-> AlignmentFromDict(RowDict(i))])

--------------------------------------------------------------------------
(* rasters and the cv2 operations applied to them *)

\* the side of the square frame canvas, defaults.VIDEO_FRAME_SIZE, scaled down
FrameSide == 2

VIDEO_FRAME_SIZE == << FrameSide, FrameSide >>

\* an array of pixels: rows of integers, tagged with the numpy dtype;
\* a bool array holds 0 (False) and 1 (True)
Mask(dtype, data) == [dtype |-> dtype, data |-> data]

MaskHeight(mask) == Len(mask.data)
MaskWidth(mask)  == IF Len(mask.data) = 0 THEN 0 ELSE Len(mask.data[1])

\* the pixel at column x, row y (from 0); cv2 reads 0 outside the image
\* (BORDER_CONSTANT)
PixelAt(mask, x, y) ==
    IF x >= 0 /\ x < MaskWidth(mask) /\ y >= 0 /\ y < MaskHeight(mask)
    THEN mask.data[y + 1][x + 1]
    ELSE 0

Floor(q) == q.n \div q.d
RoundHalfUp(q) == (2 * q.n + q.d) \div (2 * q.d)

\* ndarray.astype
AsType(mask, dtype) ==
    IF dtype = "bool"
    THEN Mask("bool", [y \in 1..MaskHeight(mask) |->
                          [x \in 1..MaskWidth(mask) |->
                              IF mask.data[y][x] # 0 THEN 1 ELSE 0]])
    ELSE Mask(dtype, mask.data)

\* the sum of two uint8 arrays wraps modulo 256
AddUint8(a, b) ==
    Mask("uint8", [y \in 1..MaskHeight(a) |->
                      [x \in 1..MaskWidth(a) |-> (a.data[y][x] + b.data[y][x]) % 256]])

\* cv2.warpAffine(image, M, dsize): the pixel (x, y) of the result is read at
\* the position the inverse of M sends (x, y) to, interpolating bilinearly
\* between the four neighbours.  cv2 works on a 1/32-pixel grid; the model is
\* exact for positions on that grid.
AffineAt(r, x, y) == RAdd(RAdd(RMul(r[1], Num(x)), RMul(r[2], Num(y))), r[3])

Weighted(wx, wy, v) == RMul(RMul(wx, wy), Num(v))

Bilinear(image, x0, y0, a, b) ==
    RoundHalfUp(RAdd(RAdd(Weighted(RSub(Num(1), a), RSub(Num(1), b), PixelAt(image, x0, y0)),
                          Weighted(a, RSub(Num(1), b), PixelAt(image, x0 + 1, y0))),
                     RAdd(Weighted(RSub(Num(1), a), b, PixelAt(image, x0, y0 + 1)),
                          Weighted(a, b, PixelAt(image, x0 + 1, y0 + 1)))))

SampleAt(image, sx, sy) ==
    Bilinear(image, Floor(sx), Floor(sy), RSub(sx, Num(Floor(sx))), RSub(sy, Num(Floor(sy))))

WarpInverse(image, inv, dsize) ==
    Mask(image.dtype,
         [y \in 1..dsize[2] |-> [x \in 1..dsize[1] |->
             SampleAt(image, AffineAt(inv[1], x - 1, y - 1), AffineAt(inv[2], x - 1, y - 1))]])

WarpAffine(image, M, dsize) == WarpInverse(image, invert(M), dsize)

\* the sum of the pixels at the positions S
RECURSIVE SumPixels(_, _)
SumPixels(mask, S) ==
    IF S = {} THEN 0
    ELSE LET p == CHOOSE q \in S : TRUE
         IN  PixelAt(mask, p[1], p[2]) + SumPixels(mask, S \ {p})

\* cv2.resize(mask, (width, height), interpolation): an empty size is an
\* error; a size equal to the source's copies it; INTER_AREA shrinking by a
\* whole factor averages each block of pixels
Resize(mask, shape, method) ==
    LET w  == shape[1]
        h  == shape[2]
        fx == MaskWidth(mask) \div w
        fy == MaskHeight(mask) \div h
        Block(x, y) == {<< i, j >> \in (0..MaskWidth(mask) - 1) \X (0..MaskHeight(mask) - 1) :
                           i \div fx = x /\ j \div fy = y}
    IN  CASE w <= 0 \/ h <= 0 ->
                Raise("cv2.error", "resize")
          [] w > 0 /\ h > 0 /\ w = MaskWidth(mask) /\ h = MaskHeight(mask) ->
                Return(mask)
          [] /\ w > 0 /\ h > 0 /\ (w # MaskWidth(mask) \/ h # MaskHeight(mask))
             /\ method = "INTER_AREA"
             /\ MaskWidth(mask) % w = 0 /\ MaskHeight(mask) % h = 0 ->
                Return(Mask(mask.dtype,
                    [y \in 1..h |-> [x \in 1..w |->
                        RoundHalfUp(Rat(SumPixels(mask, Block(x - 1, y - 1)), fx * fy))]]))

--------------------------------------------------------------------------
(* rois.py: ROI, ROISet and the projection of the atlas onto a frame *)

ROI(name, side, AllenID, description, mask) ==
    [name |-> name, side |-> side, AllenID |-> AllenID,
     description |-> description, mask |-> mask]

ROISet(image_name, frame_idx, total_frames, rois) ==
    [image_name |-> image_name, frame_idx |-> frame_idx,
     total_frames |-> total_frames, rois |-> rois]

OUTLINE_DESCRIPTION == "the expected outline of the brain for this ROI set"

\* the left transform whatever the side
AlignmentWarpImage_leftAlways(a, image, side) ==
    IF side \notin {"left", "right"}
    THEN Raise("AttributeError", "warp_image")
    ELSE Return(WarpAffine(image, a.left, VIDEO_FRAME_SIZE))

\* Alignment.warp_image: getattr(self, side) exists for 'left' and 'right'
AlignmentWarpImage(a, image, side) ==
    IF side \notin {"left", "right"}
    THEN Raise("AttributeError", "warp_image")
    ELSE Return(WarpAffine(image, a[side], VIDEO_FRAME_SIZE))

\* the outcome of a call: its value v, or the exception of the outcome it
\* depends on
Then(outcome, v) == IF outcome.err # << >> THEN outcome ELSE Return(v)

\* generate_rois_single._warp_ROI; shape is << >> (None) or << <<width, height>> >>
ResizeMethod(shape) ==
    IF shape[1] >= FrameSide \/ shape[2] >= FrameSide THEN "INTER_CUBIC" ELSE "INTER_AREA"

ResizeTo(warped, shape) ==
    IF warped.err # << >> \/ shape = << >>
    THEN warped
    ELSE Resize(warped.val, shape[1], ResizeMethod(shape[1]))

WithMask(roi, sized) ==
    Then(sized, ROI(roi.name, roi.side, roi.AllenID, roi.description, sized.val))

warp_ROI(roi, a, shape) ==
    WithMask(roi, ResizeTo(AlignmentWarpImage(a, roi.mask, roi.side), shape))

WarpAll(rois, a, shape) == [i \in 1..Len(rois) |-> warp_ROI(rois[i], a, shape)]

\* the first exception among the outcomes of a sequence of calls, or << >>
FirstError(outcomes) ==
    IF \A i \in 1..Len(outcomes) : outcomes[i].err = << >>
    THEN << >>
    ELSE outcomes[CHOOSE i \in 1..Len(outcomes) :
                     /\ outcomes[i].err # << >>
                     /\ \A j \in 1..(i - 1) : outcomes[j].err = << >>].err

Values(outcomes) == [i \in 1..Len(outcomes) |-> outcomes[i].val]

MergedOutline(warped_outlines) ==
    ROI("outline", "both", -1, OUTLINE_DESCRIPTION,
        AddUint8(AsType(warped_outlines[1].val.mask, "uint8"),
                 AsType(warped_outlines[2].val.mask, "uint8")))

\* generate_rois_single, from the warped ROIs on
CollectROIs_mergedLast(row, warped_outlines, warped_rois) ==
    IF FirstError(warped_outlines \o warped_rois) # << >>
    THEN [err |-> FirstError(warped_outlines \o warped_rois), val |-> NoValue]
    ELSE IF Len(warped_outlines) < 2
    THEN Raise("IndexError", "generate_rois_single")
    ELSE Return(ROISet(row.Image, row.Frame, row.TotalFrames,
                       Values(warped_outlines) \o Values(warped_rois)
                           \o << MergedOutline(warped_outlines) >>))

CollectROIs(row, warped_outlines, warped_rois) ==
    IF FirstError(warped_outlines \o warped_rois) # << >>
    THEN [err |-> FirstError(warped_outlines \o warped_rois), val |-> NoValue]
    ELSE IF Len(warped_outlines) < 2
    THEN \* warped_outlines[0], warped_outlines[1]
         Raise("IndexError", "generate_rois_single")
    ELSE Return(ROISet(row.Image, row.Frame, row.TotalFrames,
                       << MergedOutline(warped_outlines) >>
                           \o Values(warped_outlines) \o Values(warped_rois)))

ResizeShape(row, do_resize) ==
    IF do_resize THEN << << row.Width, row.Height >> >> ELSE << >>

generate_rois_single(a, row, reference_set, outline_set, do_resize) ==
    CollectROIs(row,
                WarpAll(outline_set.rois, a, ResizeShape(row, do_resize)),
                WarpAll(reference_set.rois, a, ResizeShape(row, do_resize)))

\* generate_rois_batch: alignment[rowidx], rowidx being the label of the row;
\* load_metadata_table gives the rows the labels 0, 1, 2, ...
BatchAlignment_first(alignments, rowidx) ==
    IF Len(alignments) = 0
    THEN Raise("IndexError", "generate_rois_batch")
    ELSE Return(alignments[1])

BatchAlignment(alignments, rowidx) ==
    IF rowidx + 1 > Len(alignments)
    THEN Raise("IndexError", "generate_rois_batch")
    ELSE Return(alignments[rowidx + 1])

\* one pass of the loop of generate_rois_batch
generate_rois_row(alignments, table_rows, rowidx, reference_set, outline_set, do_resize) ==
    IF BatchAlignment(alignments, rowidx).err # << >>
    THEN BatchAlignment(alignments, rowidx)
    ELSE generate_rois_single(BatchAlignment(alignments, rowidx).val, table_rows[rowidx + 1],
                              reference_set, outline_set, do_resize)

--------------------------------------------------------------------------
(* rois.py: the HDF form of a ROISet *)

\* h5py: the entries of a file by their path from the root
H5Group(attrs) == [kind |-> "group", attrs |-> attrs]
H5Dataset(attrs, data) == [kind |-> "dataset", attrs |-> attrs, data |-> data]

IsPrefix(p, q) == Len(p) <= Len(q) /\ \A i \in 1..Len(p) : p[i] = q[i]

\* del group[name]
H5Delete(nodes, path) ==
    [q \in {r \in DOMAIN nodes : ~IsPrefix(path, r)} |-> nodes[q]]

\* ROISet.names: the names in order of first appearance
RECURSIVE Unique(_)
Unique(names) ==
    IF Len(names) = 0 THEN << >>
    ELSE LET init == Unique(SubSeq(names, 1, Len(names) - 1))
             last == names[Len(names)]
         IN  IF last \in Range(init) THEN init ELSE Append(init, last)

ROISetNames(roiset) == Unique([i \in 1..Len(roiset.rois) |-> roiset.rois[i].name])

\* ROI._write_hdf(parent), parent given by its path
ROIWriteHdf(nodes, parent, roi) ==
    LET sided   == roi.side \in {"left", "right"}
        hemi    == IF sided THEN Append(parent, roi.side) ELSE parent
        grouped == IF sided /\ hemi \notin DOMAIN nodes
                   THEN (hemi :> H5Group(<< >>)) @@ nodes
                   ELSE nodes
        path    == Append(hemi, roi.name)
        cleared == IF path \in DOMAIN grouped THEN H5Delete(grouped, path) ELSE grouped
        base    == [name |-> roi.name, side |-> roi.side, description |-> roi.description]
        attrs   == IF roi.AllenID >= 0 THEN ("AllenID" :> roi.AllenID) @@ base ELSE base
    IN  (path :> H5Dataset(attrs, AsType(roi.mask, "uint8"))) @@ cleared

RECURSIVE WriteAll(_, _, _)
WriteAll(nodes, parent, rois) ==
    IF Len(rois) = 0 THEN nodes
    ELSE WriteAll(ROIWriteHdf(nodes, parent, rois[1]), parent, Tail(rois))

\* ROISet.to_hdf: the group 'rois' carries the names; every ROI is written
\* with the file itself as parent
ROISetToHdf(roiset) ==
    [attrs |-> [image_name |-> roiset.image_name, frame_idx |-> roiset.frame_idx,
                total_frames |-> roiset.total_frames],
     nodes |-> WriteAll(<< "rois" >> :> H5Group([names |-> ROISetNames(roiset)]),
                        << >>, roiset.rois)]

\* ROI.load_hdf
ROILoadHdf(entry) ==
    IF ~({"name", "side", "description"} \subseteq DOMAIN entry.attrs)
    THEN Raise("KeyError", "ROI.load_hdf")
    ELSE Return(ROI(entry.attrs.name, entry.attrs.side,
                    IF "AllenID" \in DOMAIN entry.attrs THEN entry.attrs.AllenID ELSE 0,
                    entry.attrs.description,
                    AsType(entry.data, "bool")))

\* ROISet.load_hdf: every name listed by the group 'rois' is looked up in it
ROISetLoadHdf(file) ==
    IF << "rois" >> \notin DOMAIN file.nodes
    THEN Raise("KeyError", "ROISet.load_hdf")
    ELSE LET roi_names == file.nodes[<< "rois" >>].attrs.names
             Entry(i)  == << "rois", roi_names[i] >>
             outcomes  == [i \in 1..Len(roi_names) |->
                              IF Entry(i) \notin DOMAIN file.nodes
                              THEN Raise("KeyError", "ROISet.load_hdf")
                              ELSE ROILoadHdf(file.nodes[Entry(i)])]
         IN  IF FirstError(outcomes) # << >>
             THEN [err |-> FirstError(outcomes), val |-> NoValue]
             ELSE Return(ROISet(file.attrs.image_name, file.attrs.frame_idx,
                                file.attrs.total_frames, Values(outcomes)))

--------------------------------------------------------------------------
(* alignment.py: update_dlc_landmarks; base.py: DLCOutput, annotate_image *)

\* a call that may assign in place: the error raised or the value returned,
\* with the state of the argument after the call
Effect(err, val, after) == [err |-> err, val |-> val, after |-> after]

\* Landmarks.affine_warp: the warped coordinates are assigned into
\* self.coords.copy()
affine_warp_call(lm, warp) == Effect(<< >>, LandmarksAffineWarp(lm, warp), lm)

\* Landmarks.ordered: a new Landmarks of np.stack of the rows picked
ordered_call(lm, keys) == Effect(<< >>, LandmarksOrdered(lm, keys), lm)

\* DLCOutput: images is << >> for None, or << the array of frames >>
DLCOutput(dlctable, images) == [table |-> dlctable, images |-> images]

\* the DeepLabCut table: the point IDs of the columns (scorer, pointID, x / y /
\* likelihood) and one row [pointID -> << x, y, likelihood >>] per frame
DLCTable(columns, rows) == [columns |-> columns, rows |-> rows]

\* math.nan
NaN == [n |-> 0, d |-> 0, rnd |-> FALSE]
IsNaN(a) == a.d = 0

\* str.upper on the point IDs of the table
LowerIDs == << "l1", "l2", "l3", "m4", "m5", "m6", "r7", "r8", "r9" >>
Upper(pointID) ==
    IF \E i \in 1..Len(LowerIDs) : LowerIDs[i] = pointID
    THEN LANDMARK_IDS[CHOOSE i \in 1..Len(LowerIDs) : LowerIDs[i] = pointID]
    ELSE pointID

\* newtable.loc[rowidx, (scorer, pointID, 'x' / 'y')] = mark.x / mark.y, or nan
UpdatedCell(old, marks, pointID) ==
    IF LANDMARK_NAMES[Upper(pointID)] \in Range(marks.names)
    THEN << marks.coords[IndexOf(marks.names, LANDMARK_NAMES[Upper(pointID)])][1],
            marks.coords[IndexOf(marks.names, LANDMARK_NAMES[Upper(pointID)])][2],
            old[3] >>
    ELSE << NaN, NaN, old[3] >>

\* .loc on a label past the last row enlarges the table with a row of nan
OldCell(dlctable, i, pointID) ==
    IF i <= Len(dlctable.rows) THEN dlctable.rows[i][pointID] ELSE << NaN, NaN, NaN >>

NewTable(dlctable, marks) ==
    DLCTable(dlctable.columns,
             [i \in 1..(IF Len(marks) > Len(dlctable.rows) THEN Len(marks)
                        ELSE Len(dlctable.rows)) |->
                 [c \in Range(dlctable.columns) |->
                     IF i <= Len(marks)
                     THEN UpdatedCell(OldCell(dlctable, i, c), marks[i], c)
                     ELSE dlctable.rows[i][c]]])

\* Python round() of a float: to the nearest integer, a half to the even one
RoundHalfEven(q) ==
    IF 2 * (q.n - Floor(q) * q.d) < q.d THEN Floor(q)
    ELSE IF 2 * (q.n - Floor(q) * q.d) > q.d THEN Floor(q) + 1
    ELSE IF Floor(q) % 2 = 0 THEN Floor(q) ELSE Floor(q) + 1

MARKERSIZE == 16

\* ImageDraw.ellipse in the box (x0, y0) - (x1, y1): the pixels of column x,
\* row y inside the ellipse the box bounds
InEllipse(x0, y0, x1, y1, x, y) ==
    (2 * x - x0 - x1) * (2 * x - x0 - x1) * (y1 - y0) * (y1 - y0)
        + (2 * y - y0 - y1) * (2 * y - y0 - y1) * (x1 - x0) * (x1 - x0)
      <= (x1 - x0) * (x1 - x0) * (y1 - y0) * (y1 - y0)

\* Landmark.is_valid and the ellipse of radius markersize / 2 around the point
Marked(pt, x, y) ==
    /\ ~IsNaN(pt[1])
    /\ ~IsNaN(pt[2])
    /\ InEllipse(RoundHalfEven(RSub(pt[1], Rat(MARKERSIZE, 2))),
                 RoundHalfEven(RSub(pt[2], Rat(MARKERSIZE, 2))),
                 RoundHalfEven(RAdd(pt[1], Rat(MARKERSIZE, 2))),
                 RoundHalfEven(RAdd(pt[2], Rat(MARKERSIZE, 2))), x, y)

\* Landmarks.annotate_image: white discs drawn on a PIL copy of the image
\* (a pixel is the value of its channels)
annotate_image(marks, image) ==
    Mask(image.dtype,
         [y \in 1..MaskHeight(image) |-> [x \in 1..MaskWidth(image) |->
             IF \E k \in 1..Len(marks.coords) : Marked(marks.coords[k], x - 1, y - 1)
             THEN 255 ELSE image.data[y][x]]])

\* images = images.copy(); images[i] = marks.annotate_image(images[i])
NewImages(images, marks) ==
    IF images = << >> THEN << >>
    ELSE << [i \in 1..Len(images[1]) |->
                IF i <= Len(marks) THEN annotate_image(marks[i], images[1][i])
                ELSE images[1][i]] >>

\* landmarks: the reference warped by each Alignment, or the reference for
\* each of the orig.size frames
WarpedReference(orig, ref, opt_alignment) ==
    IF opt_alignment = << >>
    THEN [i \in 1..Len(orig.table.rows) |-> Return(ref)]
    ELSE [i \in 1..Len(opt_alignment[1]) |-> AlignmentWarpPoints(opt_alignment[1][i], ref)]

\* the table and the images assigned in orig itself, without the copies
UpdateWith_inplace(orig, outcomes) ==
    IF FirstError(outcomes) # << >>
    THEN Effect(FirstError(outcomes), NoValue, orig)
    ELSE IF \E c \in Range(orig.table.columns) : Upper(c) \notin DOMAIN LANDMARK_NAMES
    THEN Effect(<< "KeyError", "update_dlc_landmarks" >>, NoValue, orig)
    ELSE IF orig.images # << >> /\ Len(outcomes) > Len(orig.images[1])
    THEN Effect(<< "IndexError", "update_dlc_landmarks" >>, NoValue,
                DLCOutput(NewTable(orig.table, Values(outcomes)), orig.images))
    ELSE Effect(<< >>,
                DLCOutput(NewTable(orig.table, Values(outcomes)),
                          NewImages(orig.images, Values(outcomes))),
                DLCOutput(NewTable(orig.table, Values(outcomes)),
                          NewImages(orig.images, Values(outcomes))))

\* the table and the images are updated in copies (orig.table.copy(),
\* images.copy()); a column that is not of a landmark raises in
\* LANDMARK_NAMES[pointID.upper()], images[i] of a frame the array does not
\* have raises
UpdateWith(orig, outcomes) ==
    IF FirstError(outcomes) # << >>
    THEN Effect(FirstError(outcomes), NoValue, orig)
    ELSE IF \E c \in Range(orig.table.columns) : Upper(c) \notin DOMAIN LANDMARK_NAMES
    THEN Effect(<< "KeyError", "update_dlc_landmarks" >>, NoValue, orig)
    ELSE IF orig.images # << >> /\ Len(outcomes) > Len(orig.images[1])
    THEN Effect(<< "IndexError", "update_dlc_landmarks" >>, NoValue, orig)
    ELSE Effect(<< >>,
                DLCOutput(NewTable(orig.table, Values(outcomes)),
                          NewImages(orig.images, Values(outcomes))),
                orig)

update_dlc_landmarks(orig, ref, opt_alignment) ==
    UpdateWith(orig, WarpedReference(orig, ref, opt_alignment))

--------------------------------------------------------------------------
(* fileutils.py: names and paths *)

\* a path is the sequence of its components, each << stem, suffix >>;
\* Path('x/a.tif') is << << "x", "" >>, << "a", ".tif" >> >>
NUM_MAX_TEST == 10

\* str(path.relative_to(path.parents[i])): the last i + 1 components
with_level(paths, i) ==
    [k \in 1..Len(paths) |-> SubSeq(paths[k], Len(paths[k]) - i, Len(paths[k]))]

is_unique(names) == Cardinality(Range(names)) = Len(names)

\* unique_names_from_path, from level i on; path.parents[i] is an IndexError
\* for a path of i components or fewer
RECURSIVE UniqueNamesFrom(_, _)
UniqueNamesFrom(paths, i) ==
    IF i >= NUM_MAX_TEST
    THEN Raise("RuntimeError", "unique_names_from_path")
    ELSE IF \E k \in 1..Len(paths) : Len(paths[k]) <= i
    THEN Raise("IndexError", "unique_names_from_path")
    ELSE IF is_unique(with_level(paths, i))
    THEN Return(with_level(paths, i))
    ELSE UniqueNamesFrom(paths, i + 1)

unique_names_from_path(paths) == UniqueNamesFrom(paths, 0)

\* str(n), digit by digit
RECURSIVE DecimalDigits(_)
DecimalDigits(n) ==
    IF n < 10 THEN << n >> ELSE Append(DecimalDigits(n \div 10), n % 10)

\* required_number_of_digits: math.log10 raises for total <= 0
required_number_of_digits(total) ==
    IF total <= 0
    THEN Raise("ValueError", "required_number_of_digits")
    ELSE Return(IF Len(DecimalDigits(total)) > 2 THEN Len(DecimalDigits(total)) ELSE 2)

\* str.zfill
RECURSIVE ZFill(_, _)
ZFill(digits, width) ==
    IF Len(digits) >= width THEN digits ELSE ZFill(<< 0 >> \o digits, width)

get_roi_file_suffix(filetype) ==
    CASE filetype = "hdf"    -> Return(".h5")
      [] filetype = "matlab" -> Return(".mat")
      [] OTHER               -> Raise("ValueError", "get_roi_file_suffix")

--------------------------------------------------------------------------
(* procs.py: the names of the ROI files *)

\* the file <dir>/<stem>[_frame<digits>]_rois<suffix> below the ROI directory;
\* frame is << >> where the name has no _frame part
RoiFile(dir, stem, frame, suffix) ==
    [dir |-> dir, stem |-> stem, frame |-> frame, suffix |-> suffix]

\* the _frame part both procedures build from a frame and the frame count
FramePart(frame_idx, total_frames) ==
    IF total_frames = 1
    THEN Return(<< >>)
    ELSE Then(required_number_of_digits(total_frames),
              ZFill(DecimalDigits(frame_idx),
                    required_number_of_digits(total_frames).val))

\* run_rois_generation: Path(roiset.image_name).stem, then the suffix
GenerationOutfile(set, filetype) ==
    IF FramePart(set.frame_idx, set.total_frames).err # << >>
    THEN FramePart(set.frame_idx, set.total_frames)
    ELSE Then(get_roi_file_suffix(filetype),
              RoiFile(<< >>, set.image_name[Len(set.image_name)][1],
                      FramePart(set.frame_idx, set.total_frames).val,
                      get_roi_file_suffix(filetype).val))

\* run_packaging_all_results._get_roifile: str(Path(row.Image).with_suffix(''))
\* keeps the directories of the name
get_roifile(row) ==
    Then(FramePart(row.Frame, row.TotalFrames),
         RoiFile(SubSeq(row.Image, 1, Len(row.Image) - 1),
                 row.Image[Len(row.Image)][1],
                 FramePart(row.Frame, row.TotalFrames).val,
                 ".h5"))

--------------------------------------------------------------------------
(* the state *)

VARIABLES
    pc,                    \* position in the pipeline under study
    error,                 \* << >>, or << exception, function that raised it >>
    target,                \* validate_landmarks: the detected Landmarks of a frame
    reference,             \* the reference Landmarks
    likelihood_threshold,  \* << >> (None) or << number >>
    separate_sides,        \* "None", "True" or "False"
    validated_pair,        \* the Pairing returned by validate_landmarks
    alignment,             \* the Alignment returned by estimate_warp_matrix
    inverted,              \* the Alignment returned by Alignment.invert
    written,               \* the Alignments passed to write_alignment_table
    table,                 \* the alignment table file
    loaded,                \* the Alignments returned by load_alignment_table
    landmarks,             \* the Landmarks passed to Alignment.warp_points
    warped,                \* the Landmarks it returned
    metadata,              \* generate_rois_batch: the rows of the metadata table
    reference_rois,        \* the reference ROISet
    outline_rois,          \* the outline ROISet
    resize,                \* the resize flag
    rowidx,                \* the row the loop of generate_rois_batch is at
    sets,                  \* the ROISets collected by the loop
    roisets,               \* the ROISets returned by generate_rois_batch
    roiset,                \* the ROISet passed to ROISet.to_hdf
    h5file,                \* the HDF file
    reloaded,              \* the ROISet returned by ROISet.load_hdf
    transforms,            \* the matrices passed to compose, applied one by one
    points,                \* the points they are applied to
    step,                  \* the number of transforms applied so far
    moved,                 \* the points after that many transforms
    composed,              \* the matrix returned by compose
    via_composed,          \* the points warped by the composed matrix
    restored,              \* the moved points warped by the inverse
    est_src,               \* estimate: the src array
    est_dst,               \* the dst array
    est_result,            \* the matrix estimate returned
    dlc_orig,              \* update_dlc_landmarks: the DLCOutput passed
    dlc_alignment,         \* the Alignments passed, << >> for None
    dlc_new,               \* the DLCOutput returned
    entry_path,            \* ROI.load_hdf: the path of the entry read
    entry_roi,             \* the ROI it returned
    image_paths,           \* run_image_collection: the paths of the image files
    input_images,          \* the InputImages loaded from them
    image_names,           \* the names unique_names_from_path gave them
    video,                 \* the frames write_rescaled_video wrote
    yielded,               \* the frames iter(images) has yielded
    got,                   \* images[0], images[1], ... as far as read
    file_type,             \* run_rois_generation: the file type asked for
    assets,                \* whether the reference ROI and outline files exist
    outfiles,              \* the path written for each ROISet, in order
    roi_files,             \* the ROI files in the directory: path -> ROISet
    looked_up,             \* run_packaging_all_results: the path read for each row
    batch_target,          \* align_dlc_landmarks: the target passed
    batch_kwargs,          \* the keyword arguments of the call
    batch_alignment,       \* the tuple of Alignments returned
    process_args,          \* the 'process' command: the arguments of run
    process_dir,           \* the temporary directory: "none", "exists", "removed"
    events                 \* mkdtemp, the steps started and ended, rmtree, in order

alignVars == << target, reference, likelihood_threshold, separate_sides,
                validated_pair, alignment, inverted >>
tableVars == << written, table, loaded >>
warpVars  == << landmarks, warped >>
roiVars   == << metadata, reference_rois, outline_rois, resize, rowidx, sets, roisets >>
hdfVars   == << roiset, h5file, reloaded >>

algebraVars == << transforms, points, step, moved, composed, via_composed, restored,
                 est_src, est_dst, est_result >>

dlcVars == << dlc_orig, dlc_alignment, dlc_new >>

entryVars == << entry_path, entry_roi >>

collectVars == << image_paths, input_images, image_names, video, yielded, got >>

genVars == << file_type, assets, outfiles, roi_files, looked_up >>

batchVars == << batch_target, batch_kwargs, batch_alignment >>

processVars == << process_args, process_dir, events >>

laterVars == << entryVars, collectVars, genVars, batchVars, processVars >>

vars == << pc, error, alignVars, tableVars, warpVars, roiVars, hdfVars, algebraVars,
           dlcVars, laterVars >>

--------------------------------------------------------------------------
(* the steps *)

ValidateLandmarks ==
    /\ pc = "start"
    /\ LET res == validate_landmarks(target, reference, likelihood_threshold)
       IN  IF res.err # << >>
           THEN /\ pc' = "error"
                /\ error' = res.err
                /\ UNCHANGED validated_pair
           ELSE /\ pc' = "validated"
                /\ validated_pair' = res.val
                /\ UNCHANGED error
    /\ UNCHANGED << target, reference, likelihood_threshold, separate_sides,
                    alignment, inverted, tableVars, warpVars, roiVars, hdfVars, algebraVars, dlcVars, laterVars >>

EstimateWarpMatrix ==
    /\ pc = "validated"
    /\ LET res == estimate_warp_matrix(validated_pair, separate_sides)
       IN  IF res.err # << >>
           THEN /\ pc' = "error"
                /\ error' = res.err
                /\ UNCHANGED alignment
           ELSE /\ pc' = "estimated"
                /\ alignment' = res.val
                /\ UNCHANGED error
    /\ UNCHANGED << target, reference, likelihood_threshold, separate_sides,
                    validated_pair, inverted, tableVars, warpVars, roiVars, hdfVars, algebraVars, dlcVars, laterVars >>

Invert ==
    /\ pc = "estimated"
    /\ LET res == AlignmentInvert(alignment)
       IN  IF res.err # << >>
           THEN /\ pc' = "error"
                /\ error' = res.err
                /\ UNCHANGED inverted
           ELSE /\ pc' = "inverted"
                /\ inverted' = res.val
                /\ UNCHANGED error
    /\ UNCHANGED << target, reference, likelihood_threshold, separate_sides,
                    validated_pair, alignment, tableVars, warpVars, roiVars, hdfVars, algebraVars, dlcVars, laterVars >>

\* write_alignment_table(outpath, als)
WriteAlignmentTable(als) ==
    /\ written' = als
    /\ table' = AlignmentTableCsv(als)
    /\ pc' = "written"
    /\ UNCHANGED << error, alignVars, loaded, warpVars, roiVars, hdfVars, algebraVars, dlcVars, laterVars >>

LoadAlignmentTable ==
    /\ pc = "written"
    /\ LET res == load_alignment_table(table)
       IN  IF res.err # << >>
           THEN /\ pc' = "error"
                /\ error' = res.err
                /\ UNCHANGED loaded
           ELSE /\ pc' = "loaded"
                /\ loaded' = res.val
                /\ UNCHANGED error
    /\ UNCHANGED << alignVars, written, table, warpVars, roiVars, hdfVars, algebraVars, dlcVars, laterVars >>

\* Alignment.warp_points(landmarks)
WarpPoints ==
    /\ pc = "towarp"
    /\ LET res == AlignmentWarpPoints(alignment, landmarks)
       IN  IF res.err # << >>
           THEN /\ pc' = "error"
                /\ error' = res.err
                /\ UNCHANGED warped
           ELSE /\ pc' = "warped"
                /\ warped' = res.val
                /\ UNCHANGED error
    /\ UNCHANGED << alignVars, tableVars, landmarks, roiVars, hdfVars, algebraVars, dlcVars, laterVars >>

\* each ROISet written as soon as its row is projected
GenerateRoisRow_writing ==
    /\ pc = "batch"
    /\ rowidx < Len(metadata)
    /\ LET res == generate_rois_row(loaded, metadata, rowidx,
                                    reference_rois, outline_rois, resize)
       IN  IF res.err # << >>
           THEN /\ pc' = "error"
                /\ error' = res.err
                /\ UNCHANGED << rowidx, sets, outfiles, roi_files >>
           ELSE /\ sets' = Append(sets, res.val)
                /\ rowidx' = rowidx + 1
                /\ IF GenerationOutfile(res.val, file_type).err # << >>
                   THEN UNCHANGED << outfiles, roi_files >>
                   ELSE /\ outfiles' = Append(outfiles, GenerationOutfile(res.val, file_type).val)
                        /\ roi_files' = (GenerationOutfile(res.val, file_type).val
                                             :> Len(outfiles) + 1) @@ roi_files
                /\ UNCHANGED << pc, error >>
    /\ UNCHANGED << alignVars, tableVars, warpVars, hdfVars, algebraVars, dlcVars,
                    entryVars, collectVars, batchVars, processVars,
                    file_type, assets, looked_up,
                    metadata, reference_rois, outline_rois, resize, roisets >>

\* generate_rois_batch: one pass of the loop over the rows
GenerateRoisRow ==
    /\ pc = "batch"
    /\ rowidx < Len(metadata)
    /\ LET res == generate_rois_row(loaded, metadata, rowidx,
                                    reference_rois, outline_rois, resize)
       IN  IF res.err # << >>
           THEN /\ pc' = "error"
                /\ error' = res.err
                /\ UNCHANGED << rowidx, sets >>
           ELSE /\ sets' = Append(sets, res.val)
                /\ rowidx' = rowidx + 1
                /\ UNCHANGED << pc, error >>
    /\ UNCHANGED << alignVars, tableVars, warpVars, hdfVars, algebraVars, dlcVars, laterVars,
                    metadata, reference_rois, outline_rois, resize, roisets >>

\* generate_rois_batch: return tuple(sets)
GenerateRoisReturn ==
    /\ pc = "batch"
    /\ rowidx = Len(metadata)
    /\ roisets' = sets
    /\ pc' = "generated"
    /\ UNCHANGED << error, alignVars, tableVars, warpVars, hdfVars, algebraVars, dlcVars, laterVars,
                    metadata, reference_rois, outline_rois, resize, rowidx, sets >>

\* ROISet.to_hdf(path)
ToHdf ==
    /\ pc = "tostore"
    /\ h5file' = ROISetToHdf(roiset)
    /\ pc' = "stored"
    /\ UNCHANGED << error, alignVars, tableVars, warpVars, roiVars, algebraVars, dlcVars, laterVars, roiset, reloaded >>

\* ROISet.load_hdf(path)
LoadHdf ==
    /\ pc = "stored"
    /\ LET res == ROISetLoadHdf(h5file)
       IN  IF res.err # << >>
           THEN /\ pc' = "error"
                /\ error' = res.err
                /\ UNCHANGED reloaded
           ELSE /\ pc' = "reloaded"
                /\ reloaded' = res.val
                /\ UNCHANGED error
    /\ UNCHANGED << alignVars, tableVars, warpVars, roiVars, algebraVars, dlcVars, laterVars, roiset, h5file >>

\* ROI.load_hdf(entry) for one raster entry of the file written
LoadEntry ==
    /\ pc \in {"stored", "reloaded", "error"}
    /\ entry_path = << >>
    /\ \E path \in DOMAIN h5file.nodes :
          /\ h5file.nodes[path].kind = "dataset"
          /\ ROILoadHdf(h5file.nodes[path]).err = << >>
          /\ entry_path' = path
          /\ entry_roi' = ROILoadHdf(h5file.nodes[path]).val
    /\ UNCHANGED << pc, error, alignVars, tableVars, warpVars, roiVars, hdfVars,
                    algebraVars, dlcVars, collectVars, genVars, batchVars, processVars >>

\* warp_points(moved, transforms[step])
ApplyNext ==
    /\ pc = "affine"
    /\ step < Len(transforms)
    /\ moved' = warp_points(moved, transforms[step + 1])
    /\ step' = step + 1
    /\ UNCHANGED << pc, error, alignVars, tableVars, warpVars, roiVars, hdfVars,
                    transforms, points, composed, via_composed, restored,
                    est_src, est_dst, est_result, dlcVars, laterVars >>

\* warp_points(moved, invert(T)) after the one transform T
Undo ==
    /\ pc = "affine"
    /\ step = 1
    /\ restored' = warp_points(moved, invert(transforms[1]))
    /\ pc' = "undone"
    /\ UNCHANGED << error, alignVars, tableVars, warpVars, roiVars, hdfVars,
                    transforms, points, step, moved, composed, via_composed,
                    est_src, est_dst, est_result, dlcVars, laterVars >>

\* compose(*transforms)
Compose ==
    /\ pc = "affine"
    /\ step = Len(transforms)
    /\ composed' = compose(transforms)
    /\ pc' = "composed"
    /\ UNCHANGED << error, alignVars, tableVars, warpVars, roiVars, hdfVars,
                    transforms, points, step, moved, via_composed, restored,
                    est_src, est_dst, est_result, dlcVars, laterVars >>

\* warp_points(points, composed)
WarpComposed ==
    /\ pc = "composed"
    /\ via_composed' = warp_points(points, composed)
    /\ pc' = "compared"
    /\ UNCHANGED << error, alignVars, tableVars, warpVars, roiVars, hdfVars,
                    transforms, points, step, moved, composed, restored,
                    est_src, est_dst, est_result, dlcVars, laterVars >>

\* Landmarks.affine_warp(alignment.left)
AffineWarp ==
    /\ pc = "towarp"
    /\ landmarks' = affine_warp_call(landmarks, alignment.left).after
    /\ warped' = affine_warp_call(landmarks, alignment.left).val
    /\ pc' = "warped"
    /\ UNCHANGED << error, alignVars, tableVars, roiVars, hdfVars, algebraVars, dlcVars, laterVars >>

\* Landmarks.ordered(keys)
Ordered(keys) ==
    /\ pc = "towarp"
    /\ landmarks' = ordered_call(landmarks, keys).after
    /\ warped' = ordered_call(landmarks, keys).val
    /\ pc' = "warped"
    /\ UNCHANGED << error, alignVars, tableVars, roiVars, hdfVars, algebraVars, dlcVars, laterVars >>

\* update_dlc_landmarks(orig, reference, alignment)
UpdateDlcLandmarks ==
    /\ pc = "toupdate"
    /\ dlc_orig' = update_dlc_landmarks(dlc_orig, reference, dlc_alignment).after
    /\ IF update_dlc_landmarks(dlc_orig, reference, dlc_alignment).err # << >>
       THEN /\ pc' = "error"
            /\ error' = update_dlc_landmarks(dlc_orig, reference, dlc_alignment).err
            /\ UNCHANGED dlc_new
       ELSE /\ pc' = "updated"
            /\ dlc_new' = update_dlc_landmarks(dlc_orig, reference, dlc_alignment).val
            /\ UNCHANGED error
    /\ UNCHANGED << alignVars, tableVars, warpVars, roiVars, hdfVars, algebraVars,
                    dlc_alignment, laterVars >>

\* estimate(src, dst)
Estimate ==
    /\ pc = "toestimate"
    /\ LET res == estimate_call(est_src, est_dst)
       IN  IF res.err # << >>
           THEN /\ pc' = "error"
                /\ error' = res.err
                /\ UNCHANGED est_result
           ELSE /\ pc' = "fitted"
                /\ est_result' = res.val
                /\ UNCHANGED error
    /\ UNCHANGED << alignVars, tableVars, warpVars, roiVars, hdfVars,
                    transforms, points, step, moved, composed, via_composed, restored,
                    est_src, est_dst, dlcVars, laterVars >>

--------------------------------------------------------------------------
(* inputs *)

MaxShift == 1

\* the reference Landmarks passed by the caller: the 9 names at small
\* integer coordinates laid out like the atlas (midline points collinear)
RefCoords ==
    << <<0, 1>>, <<1, 0>>, <<1, 4>>,
       <<2, 0>>, <<2, 2>>, <<2, 4>>,
       <<4, 1>>, <<3, 0>>, <<3, 4>> >>

ReferenceLandmarks ==
    Landmarks(TaxonomyNames,
              [i \in 1..9 |-> << Num(RefCoords[i][1]), Num(RefCoords[i][2]), Num(1) >>])

Confidences == { Rat(9998, 10000), Rat(9999, 10000), Rat(99995, 100000) }

\* a detected frame: every left landmark displaced by sl, every right one by
\* sr, each landmark with its own confidence
TargetFrame(sl, sr, conf) ==
    Landmarks(TaxonomyNames,
              [i \in 1..9 |->
                 << Num(RefCoords[i][1] + (IF i <= 3 THEN sl ELSE IF i >= 7 THEN sr ELSE 0)),
                    Num(RefCoords[i][2] + (IF i >= 7 THEN sr ELSE 0)),
                    conf[i] >>])

\* no call of update_dlc_landmarks in the run
InitDlcIdle ==
    /\ dlc_orig = NoValue
    /\ dlc_alignment = << >>
    /\ dlc_new = NoValue

\* no entry read by ROI.load_hdf in the run
InitEntryIdle ==
    /\ entry_path = << >>
    /\ entry_roi = NoValue

\* no image collected in the run
InitCollectIdle ==
    /\ image_paths = << >>
    /\ input_images = NoValue
    /\ image_names = << >>
    /\ video = << >>
    /\ yielded = << >>
    /\ got = << >>

\* no ROI file written in the run
InitGenIdle ==
    /\ file_type = "hdf"
    /\ assets = TRUE
    /\ outfiles = << >>
    /\ roi_files = << >>
    /\ looked_up = << >>

\* no call of align_dlc_landmarks in the run
InitBatchIdle ==
    /\ batch_target = NoValue
    /\ batch_kwargs = << >>
    /\ batch_alignment = << >>

\* no 'process' command in the run
InitProcessIdle ==
    /\ process_args = NoValue
    /\ process_dir = "none"
    /\ events = << >>

InitLaterIdle ==
    /\ InitEntryIdle
    /\ InitCollectIdle
    /\ InitGenIdle
    /\ InitBatchIdle
    /\ InitProcessIdle

\* no call of the transform algebra in the run
InitAlgebraIdle ==
    /\ transforms = << >>
    /\ points = << >>
    /\ step = 0
    /\ moved = << >>
    /\ composed = NoValue
    /\ via_composed = << >>
    /\ restored = << >>
    /\ est_src = NoValue
    /\ est_dst = NoValue
    /\ est_result = NoValue

\* no ROI projection and no HDF file in the run
InitRoiIdle ==
    /\ metadata = << >>
    /\ reference_rois = NoValue
    /\ outline_rois = NoValue
    /\ resize = TRUE
    /\ rowidx = 0
    /\ sets = << >>
    /\ roisets = NoValue
    /\ roiset = NoValue
    /\ h5file = NoValue
    /\ reloaded = NoValue

InitCommon ==
    /\ InitRoiIdle
    /\ InitAlgebraIdle
    /\ InitDlcIdle
    /\ InitLaterIdle
    /\ landmarks = NoValue
    /\ warped = NoValue
    /\ error = << >>
    /\ reference = ReferenceLandmarks
    /\ validated_pair = NoValue
    /\ inverted = NoValue
    /\ table = NoValue
    /\ loaded = << >>

\* the alignment of one frame
Init ==
    /\ pc = "start"
    /\ InitCommon
    /\ alignment = NoValue
    /\ written = << >>
    /\ \E sl \in 0..MaxShift, sr \in 0..MaxShift :
       \E conf \in [1..9 -> {Rat(9999, 10000), Rat(99995, 100000)}] :
           target = TargetFrame(sl, sr, conf)
    /\ likelihood_threshold = << >>
    /\ separate_sides \in {"None", "True", "False"}

Next ==
    \/ ValidateLandmarks
    \/ EstimateWarpMatrix
    \/ Invert
    \/ (pc = "estimated" /\ WriteAlignmentTable(<< alignment >>))
    \/ (pc = "inverted" /\ WriteAlignmentTable(<< inverted >>))
    \/ LoadAlignmentTable

Spec == Init /\ [][Next]_vars

\* persistence of an arbitrary sequence of Alignments
MaxRows == 2

SampleMatrices ==
    { Matrix(Num(1), Num(0), Num(0), Num(0), Num(1), Num(0)),
      Matrix(Rat(1, 2), Rat(1, 4), Num(1), Num(-1), Num(2), Num(-3)),
      \* doubles that need more than 24 significant bits: 1 + 2^-24, 2^24 + 1
      Matrix(Rat(16777217, 16777216), Num(0), Num(5), Rat(3, 8), Num(1), Num(16777217)) }

\* separate Alignments of any two matrices, joint ones of a single matrix
SampleAlignments ==
    {Alignment(l, r, TRUE) : l \in SampleMatrices, r \in SampleMatrices}
    \cup {Alignment(m, m, FALSE) : m \in SampleMatrices}

\* one row per frame; a run has at least one frame
SeqsUpTo(S, n) == UNION {[1..k -> S] : k \in 1..n}

InitTable ==
    /\ pc = "towrite"
    /\ InitCommon
    /\ alignment = NoValue
    /\ target = NoValue
    /\ likelihood_threshold = << >>
    /\ separate_sides = "None"
    /\ \E als \in SeqsUpTo(SampleAlignments, MaxRows) : written = als

NextTable ==
    \/ (pc = "towrite" /\ WriteAlignmentTable(written))
    \/ LoadAlignmentTable

SpecTable == InitTable /\ [][NextTable]_vars

\* Alignment.warp_points on any sub-collection of the reference landmarks,
\* listed in taxonomy order or in the reverse order
Reverse(s) == [i \in 1..Len(s) |-> s[Len(s) + 1 - i]]

SubLandmarks(lm, S) ==
    LET keep == [i \in 1..Len(lm.names) |-> i \in S]
    IN  Landmarks(SelectIdx(lm.names, keep), SelectIdx(lm.coords, keep))

InitWarp ==
    /\ pc = "towarp"
    /\ error = << >>
    /\ reference = ReferenceLandmarks
    /\ target = NoValue
    /\ likelihood_threshold = << >>
    /\ separate_sides = "None"
    /\ validated_pair = NoValue
    /\ inverted = NoValue
    /\ written = << >>
    /\ table = NoValue
    /\ loaded = << >>
    /\ alignment \in SampleAlignments
    /\ \E S \in SUBSET (1..9), rev \in BOOLEAN :
          LET sub == SubLandmarks(ReferenceLandmarks, S)
          IN  landmarks = IF rev THEN Landmarks(Reverse(sub.names), Reverse(sub.coords)) ELSE sub
    /\ warped = NoValue
    /\ InitRoiIdle
    /\ InitAlgebraIdle
    /\ InitDlcIdle
    /\ InitLaterIdle

NextWarp == WarpPoints

SpecWarp == InitWarp /\ [][NextWarp]_vars

\* generate_rois_batch over a metadata table and loaded Alignments

MaxRois == 2

ColumnMask(col) ==
    Mask("uint8", [y \in 1..FrameSide |-> [x \in 1..FrameSide |-> IF x = col THEN 255 ELSE 0]])

RowMask(row) ==
    Mask("uint8", [y \in 1..FrameSide |-> [x \in 1..FrameSide |-> IF y = row THEN 255 ELSE 0]])

\* load_reference_outlines: one 'outline' ROI per hemisphere, pixels 0 or 255
ReferenceOutlines ==
    ROISet("__reference__", -1, -1,
           << ROI("outline", "left", -1, OUTLINE_DESCRIPTION, ColumnMask(1)),
              ROI("outline", "right", -1, OUTLINE_DESCRIPTION, ColumnMask(FrameSide)) >>)

SampleROIs ==
    << ROI("MOp", "left", 985, "Primary motor area", RowMask(1)),
       ROI("MOp", "right", 985, "Primary motor area", RowMask(FrameSide)),
       ROI("VISp", "left", 385, "Primary visual area", ColumnMask(1)),
       ROI("window", "both", -1, "the imaging window", RowMask(1)) >>

\* reference ROISets: empty, of left and right ROIs, and with a ROI that
\* belongs to no single hemisphere
SampleReferences ==
    { ROISet("__reference__", -1, -1, SubSeq(SampleROIs, 1, k)) : k \in {0, 3, 4} }

SampleOutlines ==
    { ReferenceOutlines,
      ROISet("__reference__", -1, -1, SubSeq(ReferenceOutlines.rois, 1, 1)) }

\* rows of the table write_metadata_table writes (Frame counts from 1),
\* and a row that gives the frame no size
SampleRows ==
    { [Image |-> "a.tif", Frame |-> 1, TotalFrames |-> 1, Width |-> FrameSide, Height |-> FrameSide],
      [Image |-> "b.tif", Frame |-> 1, TotalFrames |-> 2, Width |-> 1, Height |-> 1],
      [Image |-> "b.tif", Frame |-> 2, TotalFrames |-> 2, Width |-> 1, Height |-> 1],
      [Image |-> "c.tif", Frame |-> 1, TotalFrames |-> 1, Width |-> 0, Height |-> 0] }

Translation(tx, ty) == Matrix(Num(1), Num(0), tx, Num(0), Num(1), ty)

RoiAlignments ==
    { Alignment(Translation(Num(0), Num(0)), Translation(Num(0), Num(0)), FALSE),
      Alignment(Translation(Num(1), Num(0)), Translation(Rat(1, 2), Num(0)), TRUE) }

InitRois ==
    /\ pc = "batch"
    /\ error = << >>
    /\ reference = ReferenceLandmarks
    /\ target = NoValue
    /\ likelihood_threshold = << >>
    /\ separate_sides = "None"
    /\ validated_pair = NoValue
    /\ alignment = NoValue
    /\ inverted = NoValue
    /\ written = << >>
    /\ table = NoValue
    /\ landmarks = NoValue
    /\ warped = NoValue
    /\ loaded \in SeqsUpTo(RoiAlignments, MaxRows)
    /\ metadata \in SeqsUpTo(SampleRows, MaxRows)
    /\ reference_rois \in SampleReferences
    /\ outline_rois \in SampleOutlines
    /\ resize \in BOOLEAN
    /\ rowidx = 0
    /\ sets = << >>
    /\ roisets = NoValue
    /\ roiset = NoValue
    /\ h5file = NoValue
    /\ reloaded = NoValue
    /\ InitAlgebraIdle
    /\ InitDlcIdle
    /\ InitLaterIdle

NextRois == GenerateRoisRow \/ GenerateRoisReturn

SpecRois == InitRois /\ [][NextRois]_vars

\* ROISet.to_hdf followed by ROISet.load_hdf of the same file
SampleRoiSets ==
    { ROISet(row.Image, row.Frame, row.TotalFrames, [i \in 1..Len(idx) |-> SampleROIs[idx[i]]]) :
        row \in SampleRows,
        idx \in {<< >>} \cup SeqsUpTo(1..Len(SampleROIs), MaxRois) }

InitHdf ==
    /\ pc = "tostore"
    /\ error = << >>
    /\ reference = ReferenceLandmarks
    /\ target = NoValue
    /\ likelihood_threshold = << >>
    /\ separate_sides = "None"
    /\ validated_pair = NoValue
    /\ alignment = NoValue
    /\ inverted = NoValue
    /\ written = << >>
    /\ table = NoValue
    /\ loaded = << >>
    /\ landmarks = NoValue
    /\ warped = NoValue
    /\ metadata = << >>
    /\ reference_rois = NoValue
    /\ outline_rois = NoValue
    /\ resize = TRUE
    /\ rowidx = 0
    /\ sets = << >>
    /\ roisets = NoValue
    /\ roiset \in SampleRoiSets
    /\ h5file = NoValue
    /\ reloaded = NoValue
    /\ InitAlgebraIdle
    /\ InitDlcIdle
    /\ InitLaterIdle

NextHdf == ToHdf \/ LoadHdf \/ LoadEntry

SpecHdf == InitHdf /\ [][NextHdf]_vars

\* the transform algebra: transforms applied one by one, undone, composed

MaxTransforms == 2

\* a compact matrix in square form (float64, as np.eye or a 3x3 array gives)
Square(M) == << M[1], M[2], << Num(0), Num(0), Num(1) >> >>

SampleTransforms ==
    { Translation(Num(1), Num(0)),
      Translation(Num(0), Num(1)),
      Matrix(Num(2), Num(0), Num(0), Num(0), Num(2), Num(0)),
      Matrix(Num(0), Num(-1), Num(2), Num(1), Num(0), Num(0)),
      Matrix(Num(1), Rat(1, 2), Num(0), Num(0), Num(1), Num(1)),
      Matrix(Num(1), Num(1), Num(0), Num(1), Num(1), Num(3)),
      Square(Translation(Num(1), Num(0))),
      Square(Matrix(Num(3), Num(0), Num(1), Num(0), Rat(1, 3), Num(0))) }

SamplePoints ==
    { << << Num(0), Num(0) >> >>,
      << << Num(1), Num(2) >>, << Rat(-1, 2), Num(3) >> >>,
      << << Num(0), Num(0) >>, << Num(1), Num(0) >>, << Num(0), Num(1) >> >> }

InitAffine ==
    /\ pc = "affine"
    /\ error = << >>
    /\ reference = ReferenceLandmarks
    /\ target = NoValue
    /\ likelihood_threshold = << >>
    /\ separate_sides = "None"
    /\ validated_pair = NoValue
    /\ alignment = NoValue
    /\ inverted = NoValue
    /\ written = << >>
    /\ table = NoValue
    /\ loaded = << >>
    /\ landmarks = NoValue
    /\ warped = NoValue
    /\ InitRoiIdle
    /\ transforms \in SeqsUpTo(SampleTransforms, MaxTransforms)
    /\ points \in SamplePoints
    /\ step = 0
    /\ moved = points
    /\ composed = NoValue
    /\ via_composed = << >>
    /\ restored = << >>
    /\ est_src = NoValue
    /\ est_dst = NoValue
    /\ est_result = NoValue
    /\ InitDlcIdle
    /\ InitLaterIdle

NextAffine == ApplyNext \/ Undo \/ Compose \/ WarpComposed

SpecAffine == InitAffine /\ [][NextAffine]_vars

\* estimate on arrays of points of any shape

MaxPoints == 3

GridPoints == << << 0, 0 >>, << 1, 0 >>, << 0, 1 >>, << 2, 0 >> >>

\* arrays of different points of the grid, shifted by (dx, dy)
PointArray(idx, dx, dy) ==
    Array(2, [i \in 1..Len(idx) |->
                << Num(GridPoints[idx[i]][1] + dx), Num(GridPoints[idx[i]][2] + dy) >>])

\* the array with one column less, with one column more, with one row more
Narrow(array) == Array(2, [i \in 1..Len(array.rows) |-> << array.rows[i][1] >>])
Widen(array)  == Array(2, [i \in 1..Len(array.rows) |-> Append(array.rows[i], Num(1))])
Longer(array) == Array(2, Append(array.rows, << Num(5), Num(5) >>))

\* 1-dimensional arrays: the first column, and array.ravel()
FirstColumn(array) == Array(1, [i \in 1..Len(array.rows) |-> array.rows[i][1]])
Ravel(array) ==
    Array(1, [i \in 1..2 * Len(array.rows) |-> array.rows[(i + 1) \div 2][2 - (i % 2)]])

InitEstimate ==
    /\ pc = "toestimate"
    /\ error = << >>
    /\ reference = ReferenceLandmarks
    /\ target = NoValue
    /\ likelihood_threshold = << >>
    /\ separate_sides = "None"
    /\ validated_pair = NoValue
    /\ alignment = NoValue
    /\ inverted = NoValue
    /\ written = << >>
    /\ table = NoValue
    /\ loaded = << >>
    /\ landmarks = NoValue
    /\ warped = NoValue
    /\ InitRoiIdle
    /\ transforms = << >>
    /\ points = << >>
    /\ step = 0
    /\ moved = << >>
    /\ composed = NoValue
    /\ via_composed = << >>
    /\ restored = << >>
    /\ est_result = NoValue
    /\ InitDlcIdle
    /\ InitLaterIdle
    /\ \E idx \in SeqsUpTo(1..Len(GridPoints), MaxPoints), dx \in 0..1, dy \in 0..1 :
          /\ \A i, j \in 1..Len(idx) : i # j => idx[i] # idx[j]
          /\ est_src \in {PointArray(idx, 0, 0), Narrow(PointArray(idx, 0, 0)),
                          Widen(PointArray(idx, 0, 0)), FirstColumn(PointArray(idx, 0, 0)),
                          Ravel(PointArray(idx, 0, 0))}
          /\ est_dst \in {PointArray(idx, dx, dy), Narrow(PointArray(idx, dx, dy)),
                          Widen(PointArray(idx, dx, dy)), Longer(PointArray(idx, dx, dy)),
                          FirstColumn(PointArray(idx, dx, dy)),
                          Ravel(PointArray(idx, dx, dy))}

NextEstimate == Estimate

SpecEstimate == InitEstimate /\ [][NextEstimate]_vars

\* the operations that take Landmarks, Alignments, ROISets or a DLCOutput:
\* warping and ordering of Landmarks, ROI projection, update_dlc_landmarks

SampleKeys ==
    { LEFT_LANDMARK_NAMES \o MIDDLE_LANDMARK_NAMES, Reverse(TaxonomyNames),
      << "bregma", "no such landmark" >> }

SampleColumns == { LowerIDs, << "m5", "l1" >>, << "bodyparts", "l1" >> }

SampleCells(i) == << Num(i), Num(0), Rat(1, 2) >>

SampleTables ==
    { DLCTable(cols, [i \in 1..n |-> [c \in Range(cols) |-> SampleCells(i)]]) :
        cols \in SampleColumns, n \in 1..MaxRows }

\* no images, or a video of as many frames as the table has rows, or one less
SampleImages(n) ==
    { << >>, << [i \in 1..n |-> ColumnMask(1)] >>, << [i \in 1..(n - 1) |-> ColumnMask(1)] >> }

SampleReferenceLandmarks ==
    { ReferenceLandmarks, SubLandmarks(ReferenceLandmarks, {1, 5}) }

InitDlc ==
    /\ pc = "toupdate"
    /\ error = << >>
    /\ reference \in SampleReferenceLandmarks
    /\ target = NoValue
    /\ likelihood_threshold = << >>
    /\ separate_sides = "None"
    /\ validated_pair = NoValue
    /\ alignment = NoValue
    /\ inverted = NoValue
    /\ written = << >>
    /\ table = NoValue
    /\ loaded = << >>
    /\ landmarks = NoValue
    /\ warped = NoValue
    /\ InitRoiIdle
    /\ InitAlgebraIdle
    /\ \E t \in SampleTables :
          /\ dlc_orig \in {DLCOutput(t, images) : images \in SampleImages(Len(t.rows))}
    /\ dlc_alignment \in {<< >>} \cup {<< als >> : als \in SeqsUpTo(RoiAlignments, MaxRows)}
    /\ dlc_new = NoValue
    /\ InitLaterIdle

InitEffects == InitWarp \/ InitRois \/ InitDlc

NextEffects ==
    \/ WarpPoints
    \/ AffineWarp
    \/ \E keys \in SampleKeys : Ordered(keys)
    \/ GenerateRoisRow
    \/ GenerateRoisReturn
    \/ UpdateDlcLandmarks

SpecEffects == InitEffects /\ [][NextEffects]_vars

\* validation alone, over all three kinds of confidence and several thresholds
InitValidate ==
    /\ pc = "start"
    /\ InitCommon
    /\ alignment = NoValue
    /\ written = << >>
    /\ \E conf \in [1..9 -> Confidences] : target = TargetFrame(0, 0, conf)
    /\ likelihood_threshold \in {<< >>, << Rat(1, 2) >>, << Rat(99995, 100000) >>}
    /\ separate_sides = "None"

NextValidate == ValidateLandmarks

SpecValidate == InitValidate /\ [][NextValidate]_vars

--------------------------------------------------------------------------
(* Properties of validation and estimation *)

\* the positions 1..9 of the target frame whose names lie in S and whose
\* confidence is strictly above thr, stated on the inputs
PassingIn(S, thr) ==
    {i \in 1..Len(target.names) :
        target.names[i] \in S /\ target.coords[i][3].n * thr.d > thr.n * target.coords[i][3].d}

DefaultThreshold == Rat(9999, 10000)

ThresholdInForce ==
    IF likelihood_threshold = << >> THEN DefaultThreshold ELSE likelihood_threshold[1]

LeftNames   == {"left", "top left", "bottom left"}
MiddleNames == {"top center", "bregma", "lambda"}
RightNames  == {"right", "top right", "bottom right"}

HasEstimate ==
    \/ pc \in {"estimated", "inverted", "written", "loaded"}
    \/ pc = "error" /\ error[2] \in {"invert", "load_alignment_table"}

\* C1: without a forced choice, estimate_warp_matrix returns separate = TRUE
\* iff more than 2 validated left and more than 2 validated right non-middle
\* correspondences remain; otherwise it returns a joint Alignment
\* (separate = FALSE, one transform) and raises no error.
C1_AutoSeparateIff ==
    separate_sides = "None" =>
        /\ (pc = "error" => error[2] # "estimate_warp_matrix")
        /\ HasEstimate =>
              LET both == /\ Cardinality(PassingIn(LeftNames, ThresholdInForce)) > 2
                          /\ Cardinality(PassingIn(RightNames, ThresholdInForce)) > 2
              IN  /\ alignment.separate = both
                  /\ ~both => alignment.left = alignment.right

\* C1 witness: exactly 2 left and 3 right validated: downgraded to joint
C1_Witness ==
    /\ separate_sides = "None"
    /\ HasEstimate
    /\ Cardinality(PassingIn(LeftNames, ThresholdInForce)) = 2
    /\ Cardinality(PassingIn(RightNames, ThresholdInForce)) = 3
    /\ alignment.separate = FALSE

\* the transform estimated from reference to target over the validated
\* landmarks whose names lie in S, each taken once, in frame order
RECURSIVE SetToSeq(_)
SetToSeq(S) == IF S = {} THEN << >>
               ELSE LET m == CHOOSE x \in S : \A y \in S : x <= y
                    IN  << m >> \o SetToSeq(S \ {m})

ExpectedTransform(S) ==
    LET idx == SetToSeq(PassingIn(S, ThresholdInForce))
    IN  estimate([k \in 1..Len(idx) |-> << reference.coords[idx[k]][1], reference.coords[idx[k]][2] >>],
                 [k \in 1..Len(idx) |-> << target.coords[idx[k]][1], target.coords[idx[k]][2] >>])

\* C2: every transform is estimated reference -> target; in separate mode
\* left from the validated {left, middle} landmarks and right from the
\* validated {middle, right} ones; in joint mode the single transform from
\* every validated correspondence, middle landmarks counted once.
C2_TransformsFromCorrespondences ==
    HasEstimate =>
        IF alignment.separate
        THEN /\ alignment.left  = ExpectedTransform(LeftNames \cup MiddleNames)
             /\ alignment.right = ExpectedTransform(MiddleNames \cup RightNames)
        ELSE /\ alignment.left  = ExpectedTransform(LeftNames \cup MiddleNames \cup RightNames)
             /\ alignment.right = alignment.left

\* C2 witness: a separate alignment whose two hemispheres moved differently
C2_Witness ==
    /\ HasEstimate
    /\ alignment.separate
    /\ alignment.left # alignment.right
    /\ PassingIn(MiddleNames, ThresholdInForce) # {}

\* C3: validate_landmarks keeps (target[i], reference[i]) iff
\* target[i].confidence > threshold (strictly; default 0.9999), and the
\* kept pairs appear in the input's relative order.
C3_ValidateKeepsStrictlyAbove ==
    LET kept == PassingIn(LeftNames \cup MiddleNames \cup RightNames, ThresholdInForce)
    IN  /\ (pc = "error" /\ error[2] = "validate_landmarks") => kept = {}
        /\ pc = "validated" =>
              LET t == validated_pair.target
                  r == validated_pair.reference
              IN  /\ Len(t.names) = Cardinality(kept)
                  /\ Len(r.names) = Cardinality(kept)
                  /\ Len(t.coords) = Cardinality(kept)
                  /\ Len(r.coords) = Cardinality(kept)
                  /\ \A i \in 1..Len(target.names) :
                        i \in kept <=> \E k \in 1..Len(t.names) : t.names[k] = target.names[i]
                  /\ \A k \in 1..Len(t.names) :
                        \E i \in kept :
                           /\ t.names[k] = target.names[i]
                           /\ t.coords[k] = target.coords[i]
                           /\ r.names[k] = reference.names[i]
                           /\ r.coords[k] = reference.coords[i]
                           /\ Cardinality({j \in kept : j < i}) = k - 1

\* C3 witness: a frame with a landmark exactly at the default threshold
\* (dropped), one below, and at least two kept
C3_Witness ==
    /\ pc = "validated"
    /\ likelihood_threshold = << >>
    /\ \E i \in 1..9 : target.coords[i][3] = Rat(9999, 10000)
    /\ \E i \in 1..9 : target.coords[i][3] = Rat(9998, 10000)
    /\ Len(validated_pair.target.names) >= 2
    /\ Len(validated_pair.target.names) < 8

--------------------------------------------------------------------------
(* Properties of the Alignment values and of their persistence *)

HasInverse ==
    \/ pc = "inverted"
    \/ pc \in {"written", "loaded"} /\ written = << inverted >>

Joint(a) == a.separate = FALSE => a.left = a.right

\* C5: every Alignment with separate = FALSE returned by
\* estimate_warp_matrix, returned by Alignment.invert, or reloaded by
\* load_alignment_table has numerically identical left and right transforms.
C5_JointHasOneTransform ==
    /\ HasEstimate => Joint(alignment)
    /\ pc = "inverted" => Joint(inverted)
    /\ pc = "loaded" => \A k \in 1..Len(loaded) : Joint(loaded[k])

\* C5 witness: a joint Alignment was estimated, inverted, written and
\* reloaded, with components that float32 cannot hold exactly
C5_Witness ==
    /\ pc = "loaded"
    /\ Len(loaded) = 1
    /\ loaded[1].separate = FALSE
    /\ loaded[1].left # alignment.left
    /\ loaded[1].left[1][1].rnd

\* C10: load_alignment_table(write_alignment_table(als)) returns a sequence
\* of the same length and order in which every Alignment has exactly the
\* same 12 matrix components and the same separate flag as the original.
C10_TableRoundTripExact ==
    /\ (pc = "error" => error[2] # "load_alignment_table")
    /\ pc = "loaded" =>
          /\ Len(loaded) = Len(written)
          /\ \A k \in 1..Len(loaded) :
                /\ loaded[k].separate = written[k].separate
                /\ \A i \in 1..2, j \in 1..3 :
                      /\ loaded[k].left[i][j] = written[k].left[i][j]
                      /\ loaded[k].right[i][j] = written[k].right[i][j]

--------------------------------------------------------------------------
(* Properties of Alignment.warp_points *)

\* the image of the point (x, y) of a coords row under the 2x3 matrix M
Through(M, row) ==
    << RAdd(RAdd(RMul(M[1][1], row[1]), RMul(M[1][2], row[2])), M[1][3]),
       RAdd(RAdd(RMul(M[2][1], row[1]), RMul(M[2][2], row[2])), M[2][3]) >>

GroupOf(name) == IF name \in LeftNames THEN 1 ELSE IF name \in MiddleNames THEN 2 ELSE 3

--------------------------------------------------------------------------
(* Properties of the ROI projection *)

SameIdentity(a, b) ==
    /\ a.name = b.name
    /\ a.side = b.side
    /\ a.AllenID = b.AllenID
    /\ a.description = b.description

\* C6: every ROISet generate_rois_single returns holds the merged ROI
\* 'outline' of hemisphere 'both', then the warped outline ROIs, then the
\* warped reference ROIs, each warped ROI with the name, hemisphere, id and
\* description of its source, and carries the Image, Frame and TotalFrames
\* of its metadata row.
C6_RoiSetLayout ==
    pc \in {"batch", "generated"} =>
        \A k \in 1..Len(sets) :
            LET S  == sets[k]
                no == Len(outline_rois.rois)
                nr == Len(reference_rois.rois)
            IN  /\ Len(S.rois) = 1 + no + nr
                /\ S.rois[1].name = "outline"
                /\ S.rois[1].side = "both"
                /\ \A i \in 1..no : SameIdentity(S.rois[1 + i], outline_rois.rois[i])
                /\ \A j \in 1..nr : SameIdentity(S.rois[1 + no + j], reference_rois.rois[j])
                /\ S.image_name = metadata[k].Image
                /\ S.frame_idx = metadata[k].Frame
                /\ S.total_frames = metadata[k].TotalFrames

\* C6 witness: a ROISet was generated from two outline and three reference ROIs
C6_Witness ==
    /\ pc = "generated"
    /\ Len(sets) >= 1
    /\ Len(outline_rois.rois) = 2
    /\ Len(reference_rois.rois) = 3
    /\ Len(sets[1].rois) = 6
    /\ sets[1].rois[6].name = "VISp"

\* the outcome of generating row k of the batch on its own
RowOutcome(k) ==
    generate_rois_row(loaded, metadata, k - 1, reference_rois, outline_rois, resize)

\* C7: a failure on one row of generate_rois_batch stays with that row:
\* once the batch has ended, the ROISet of every row that can be generated
\* has been produced.
C7_RowFailureIsolated ==
    pc \in {"generated", "error"} =>
        \A k \in 1..Len(metadata) :
            RowOutcome(k).err = << >> =>
                /\ pc = "generated"
                /\ \E j \in 1..Len(roisets) : roisets[j] = RowOutcome(k).val

\* C8: generate_rois_batch returns one ROISet per metadata row, the k-th one
\* built from the k-th Alignment and the k-th row; while it runs it has
\* generated one ROISet for each row passed.
C8_BatchIndexAligned ==
    /\ pc = "batch" => Len(sets) = rowidx
    /\ pc = "generated" =>
          /\ Len(roisets) = Len(metadata)
          /\ \A k \in 1..Len(metadata) :
                /\ k <= Len(loaded)
                /\ roisets[k] = generate_rois_single(loaded[k], metadata[k], reference_rois,
                                                     outline_rois, resize).val

\* C8 witness: a batch of two different rows under two different Alignments
C8_Witness ==
    /\ pc = "generated"
    /\ Len(metadata) = 2
    /\ metadata[1] # metadata[2]
    /\ loaded[1] # loaded[2]
    /\ roisets[1] # roisets[2]
    /\ resize

\* C9: loading the file ROISet.to_hdf wrote succeeds and gives back the same
\* ROIs in the same order, with the same identity attributes.
C9_HdfRoundTrip ==
    pc \in {"reloaded", "error"} =>
        /\ pc = "reloaded"
        /\ reloaded.image_name = roiset.image_name
        /\ reloaded.frame_idx = roiset.frame_idx
        /\ reloaded.total_frames = roiset.total_frames
        /\ Len(reloaded.rois) = Len(roiset.rois)
        /\ \A i \in 1..Len(roiset.rois) :
              /\ SameIdentity(reloaded.rois[i], roiset.rois[i])
              /\ reloaded.rois[i].mask.data = roiset.rois[i].mask.data

--------------------------------------------------------------------------
(* Properties of Alignment.invert and of the transform algebra *)

IdentityMatrix == Matrix(Num(1), Num(0), Num(0), Num(0), Num(1), Num(0))

ZeroMatrix == Matrix(Num(0), Num(0), Num(0), Num(0), Num(0), Num(0))

Determinant(M) == RSub(RMul(M[1][1], M[2][2]), RMul(M[1][2], M[2][1]))

\* T followed by U
Product(T, U) ==
    [i \in 1..2 |-> [j \in 1..3 |->
        RAdd(RAdd(RMul(U[i][1], T[1][j]), RMul(U[i][2], T[2][j])),
             IF j = 3 THEN U[i][3] ELSE Num(0))]]

C12_InvertUndoesWarp ==
    (pc = "undone" /\ Determinant(transforms[1]).n # 0) => restored = points

C12_Witness ==
    /\ pc = "undone"
    /\ Determinant(transforms[1]).n # 0
    /\ to_compact(transforms[1])[1][3].n # 0
    /\ to_compact(transforms[1])[1][1] # Num(1)
    /\ moved # points
    /\ restored = points

\* C13: for n >= 2 transforms, compact or square, warping P by
\* compose(T1, ..., Tn) gives what applying T1, then T2, ... then Tn gives;
\* compose(translate(1, 0), translate(0, 1)) is translate(1, 1)
C13_ComposeLeftToRight ==
    /\ (pc = "compared" /\ Len(transforms) >= 2) => via_composed = moved
    /\ compose(<< Translation(Num(1), Num(0)), Translation(Num(0), Num(1)) >>)
          = Translation(Num(1), Num(1))

C13_Witness ==
    /\ pc = "compared"
    /\ Len(transforms) = 2
    /\ Len(transforms[1]) # Len(transforms[2])
    /\ via_composed = moved
    /\ via_composed # warp_points(warp_points(points, transforms[2]), transforms[1])


\* all points of P on one line (or P of fewer than two different points)
Collinear(P) ==
    \A i, j, k \in 1..Len(P) :
        (P[j][1].n - P[i][1].n) * (P[k][2].n - P[i][2].n)
            = (P[k][1].n - P[i][1].n) * (P[j][2].n - P[i][2].n)

ExampleSrc == Array(2, << << Num(0), Num(0) >>, << Num(1), Num(0) >>, << Num(0), Num(1) >> >>)
ExampleDst == Array(2, << << Num(1), Num(1) >>, << Num(2), Num(1) >>, << Num(1), Num(2) >> >>)

\* C14, as stated: estimate(P, P) is the identity [[1,0,0],[0,1,0]] for any
\* P of at least three points, and the example src, dst gives the
\* translation [[1,0,1],[0,1,1]]
C14_IdentityForAnyThree ==
    /\ (pc = "fitted" /\ est_src = est_dst /\ Len(est_src.rows) >= 3)
          => est_result = IdentityMatrix
    /\ estimate(ExampleSrc.rows, ExampleDst.rows) = Translation(Num(1), Num(1))

\* C14, amended: estimate(P, P) is the identity for any P of at least three
\* points that are not all on one line; the example gives the translation
C14_IdentityWhenNotCollinear ==
    /\ (pc = "fitted" /\ est_src = est_dst /\ Len(est_src.rows) >= 3 /\ ~Collinear(est_src.rows))
          => est_result = IdentityMatrix
    /\ (pc = "fitted" /\ est_src = ExampleSrc /\ est_dst = ExampleDst)
          => est_result = Translation(Num(1), Num(1))
    /\ estimate(ExampleSrc.rows, ExampleDst.rows) = Translation(Num(1), Num(1))

C14_Witness ==
    /\ pc = "fitted"
    /\ est_src = est_dst
    /\ Len(est_src.rows) >= 3
    /\ ~Collinear(est_src.rows)
    /\ est_src # ExampleSrc
    /\ est_result = IdentityMatrix


\* src and dst are both N x 2 arrays
WellShaped(src, dst) ==
    /\ src.ndim = 2 /\ Columns(src) = 2
    /\ dst.ndim = 2 /\ Columns(dst) = 2
    /\ Len(src.rows) = Len(dst.rows)

\* C15: whenever src and dst have different numbers of points, or either is
\* not an array of 2-D points (another number of columns, or 1-dimensional),
\* estimate ends in an error raised on the shapes (AssertionError,
\* ValueError or LinAlgError) and returns no transform
C15_EstimateRejectsShapes ==
    (pc # "toestimate" /\ ~WellShaped(est_src, est_dst)) =>
        /\ pc = "error"
        /\ error \in {<< "AssertionError", "estimate" >>, << "ValueError", "estimate" >>,
                      << "LinAlgError", "estimate" >>}
        /\ est_result = NoValue

\* the three errors are all met, and well-shaped arrays are fitted
C15_Witness ==
    /\ pc = "error"
    /\ error = << "LinAlgError", "estimate" >>
    /\ est_src.ndim = 2 /\ Columns(est_src) = 2
    /\ Len(est_src.rows) = Len(est_dst.rows)
    /\ est_dst.ndim = 1


\* the number of correspondences validation keeps for the frame
ValidCount ==
    Len(ValidIndices(target, reference,
                     IF likelihood_threshold = << >> THEN LANDMARK_LIKELIHOOD_THRESHOLD
                     ELSE likelihood_threshold[1]))

\* C16: with fewer than 3 validated correspondences (none included),
\* validate_landmarks followed by estimate_warp_matrix ends in an error of
\* one of the two and yields no Alignment
C16_InsufficientIsHardFailure ==
    (ValidCount < 3 /\ pc \notin {"start", "validated"}) =>
        /\ pc = "error"
        /\ error[2] \in {"validate_landmarks", "estimate_warp_matrix"}


\* C17: the ROISet generate_rois_batch returns for a frame depends only on
\* that frame's Alignment, its metadata row and the reference assets: once
\* the batch has ended, every frame has in it the result it has in a batch
\* without the other frames, a ROISet where it has one there and the same
\* one (for every frame that has an Alignment)
C17_NoCrossFrameState ==
    pc \in {"generated", "error"} =>
        \A k \in 1..Len(metadata) : k <= Len(loaded) =>
            LET alone == generate_rois_row(<< loaded[k] >>, << metadata[k] >>, 0,
                                           reference_rois, outline_rois, resize)
            IN  /\ (alone.err = << >>) <=> (pc = "generated")
                /\ pc = "generated" => roisets[k] = alone.val


\* C18: no operation changes what it is given: ROI projection leaves the
\* reference and outline ROISets, the Alignments and the metadata as they
\* were; Alignment.warp_points, Landmarks.affine_warp and Landmarks.ordered
\* leave the Landmarks and the Alignment as they were; update_dlc_landmarks
\* leaves the DLCOutput passed (table and images), the reference and the
\* Alignments as they were
C18_InputsUnchanged ==
    [][/\ reference_rois' = reference_rois
       /\ outline_rois' = outline_rois
       /\ loaded' = loaded
       /\ metadata' = metadata
       /\ landmarks' = landmarks
       /\ alignment' = alignment
       /\ reference' = reference
       /\ dlc_orig' = dlc_orig
       /\ dlc_alignment' = dlc_alignment]_vars

\* update_dlc_landmarks has returned a new table and new images
C18_Witness ==
    /\ pc = "updated"
    /\ dlc_orig.images # << >>
    /\ dlc_new.images # dlc_orig.images
    /\ dlc_new.table # dlc_orig.table
    /\ \E c \in Range(dlc_new.table.columns) : IsNaN(dlc_new.table.rows[1][c][1])


\* target and reference of a Pairing have the same length and the same name
\* at every index
IndexAligned(pair) ==
    /\ Len(pair.target.names) = Len(pair.reference.names)
    /\ Len(pair.target.coords) = Len(pair.target.names)
    /\ Len(pair.reference.coords) = Len(pair.reference.names)
    /\ \A i \in 1..Len(pair.target.names) : pair.target.names[i] = pair.reference.names[i]

\* every entry of the Pairing is the landmark of that name of the frame and
\* of the reference
OfTheFrame(pair) ==
    \A i \in 1..Len(pair.target.names) :
        /\ pair.target.names[i] \in Range(target.names)
        /\ pair.target.coords[i] = target.coords[IndexOf(target.names, pair.target.names[i])]
        /\ pair.reference.coords[i]
              = reference.coords[IndexOf(reference.names, pair.reference.names[i])]

PairingKeys ==
    { Reverse(TaxonomyNames), << "bregma", "no such landmark", "left", "bregma" >>,
      << "bottom right", "top left" >>, << >> }

PairingViews(pair) ==
    { pair, PairingLeft(pair), PairingRight(pair), PairingMiddle(pair),
      PairingWithoutMiddle(pair) }
    \cup { PairingOrdered(pair, keys) : keys \in PairingKeys }

\* C19: the Pairing validate_landmarks returns for a target and a reference
\* with the same names in the same order, and each of its views left, right,
\* middle, without_middle and ordered(keys), has len(target) = len(reference)
\* and at every index the same named landmark in target and reference
C19_PairingIndexAligned ==
    pc = "validated" =>
        \A view \in PairingViews(validated_pair) : IndexAligned(view) /\ OfTheFrame(view)

C19_Witness ==
    /\ pc = "validated"
    /\ PairingLen(validated_pair) \in 4..8
    /\ PairingLen(PairingLeft(validated_pair)) >= 2
    /\ PairingLen(PairingWithoutMiddle(validated_pair)) < PairingLen(validated_pair)
    /\ PairingOrdered(validated_pair, Reverse(TaxonomyNames)) # validated_pair


\* the transform of an Alignment for a hemisphere
SideTransform(a, side) == IF side = "left" THEN a.left ELSE a.right

\* a raster of another size than the canvas
SmallImage == Mask("uint8", << << 255 >> >>)

\* the mask of a projected ROI is its source mask resampled with the
\* transform of the ROI's hemisphere onto the canvas, then resized if asked
WarpedBySide(projected, source, a, shape) ==
    /\ source.side \in {"left", "right"}
    /\ projected.mask
          = ResizeTo(Return(WarpAffine(source.mask, SideTransform(a, source.side),
                                       VIDEO_FRAME_SIZE)), shape).val
    /\ shape = << >> =>
          /\ MaskWidth(projected.mask) = VIDEO_FRAME_SIZE[1]
          /\ MaskHeight(projected.mask) = VIDEO_FRAME_SIZE[2]

\* C20: Alignment.warp_image resamples with alignment.left for side 'left'
\* and alignment.right for side 'right', onto the canvas of VIDEO_FRAME_SIZE
\* whatever the size of the raster; in every ROISet projected, the mask of
\* every outline and reference ROI is warped with the transform of its own
\* hemisphere tag
C20_WarpBySide ==
    pc \in {"batch", "generated"} =>
        /\ \A k \in 1..Len(loaded) : \A side \in {"left", "right"} :
              /\ AlignmentWarpImage(loaded[k], SmallImage, side).val
                    = WarpAffine(SmallImage, SideTransform(loaded[k], side), VIDEO_FRAME_SIZE)
              /\ MaskWidth(AlignmentWarpImage(loaded[k], SmallImage, side).val)
                    = VIDEO_FRAME_SIZE[1]
              /\ MaskHeight(AlignmentWarpImage(loaded[k], SmallImage, side).val)
                    = VIDEO_FRAME_SIZE[2]
        /\ \A k \in 1..Len(sets) :
              /\ \A i \in 1..Len(outline_rois.rois) :
                    WarpedBySide(sets[k].rois[1 + i], outline_rois.rois[i], loaded[k],
                                 ResizeShape(metadata[k], resize))
              /\ \A j \in 1..Len(reference_rois.rois) :
                    WarpedBySide(sets[k].rois[1 + Len(outline_rois.rois) + j],
                                 reference_rois.rois[j], loaded[k],
                                 ResizeShape(metadata[k], resize))

\* a ROISet projected under an Alignment with two different transforms,
\* with ROIs of both hemispheres, on the canvas
C20_Witness ==
    /\ pc = "generated"
    /\ ~resize
    /\ Len(sets) >= 1
    /\ loaded[1].separate
    /\ loaded[1].left # loaded[1].right
    /\ Len(reference_rois.rois) >= 2
    /\ reference_rois.rois[1].side = "left"
    /\ reference_rois.rois[2].side = "right"
    /\ sets[1].rois[5].mask # WarpAffine(reference_rois.rois[2].mask, loaded[1].left,
                                         VIDEO_FRAME_SIZE)

--------------------------------------------------------------------------
(* Properties of the ROISet container *)

\* the raster entries of the file that lie inside the group 'rois', directly
\* or one level under a hemisphere key
InRoisGroup(file, name) ==
    { path \in DOMAIN file.nodes :
          /\ file.nodes[path].kind = "dataset"
          /\ \/ path = << "rois", name >>
             \/ \E side \in {"left", "right"} : path = << "rois", side, name >> }

\* C21: the file ROISet.to_hdf wrote has image_name, frame_idx and
\* total_frames at the top level, every raster entry lies inside the group
\* 'rois', and every name of the group's name list resolves to a raster entry
\* within that group
C21_RoisInsideGroup ==
    pc \in {"stored", "reloaded", "error"} =>
        /\ h5file.attrs.image_name = roiset.image_name
        /\ h5file.attrs.frame_idx = roiset.frame_idx
        /\ h5file.attrs.total_frames = roiset.total_frames
        /\ << "rois" >> \in DOMAIN h5file.nodes
        /\ \A path \in DOMAIN h5file.nodes :
              h5file.nodes[path].kind = "dataset" => path[1] = "rois"
        /\ \A i \in 1..Len(h5file.nodes[<< "rois" >>].attrs.names) :
              InRoisGroup(h5file, h5file.nodes[<< "rois" >>].attrs.names[i]) # {}


\* the place ROI._write_hdf gives a ROI below the parent it is handed
EntryPath(roi) ==
    IF roi.side \in {"left", "right"} THEN << roi.side, roi.name >> ELSE << roi.name >>

\* C22: 'no identifier' survives persistence: a ROI with a negative id is
\* written without the AllenID attribute, a ROI with an id >= 0 is written
\* with AllenID equal to the id, and ROI.load_hdf of an entry that has no
\* AllenID attribute yields a negative id, never a valid non-negative one
C22_NoIdentifierSurvives ==
    pc \in {"stored", "reloaded", "error"} =>
        /\ \A path \in DOMAIN h5file.nodes :
              h5file.nodes[path].kind = "dataset" =>
                  \E i \in 1..Len(roiset.rois) :
                      /\ EntryPath(roiset.rois[i]) = path
                      /\ IF roiset.rois[i].AllenID >= 0
                         THEN /\ "AllenID" \in DOMAIN h5file.nodes[path].attrs
                              /\ h5file.nodes[path].attrs.AllenID = roiset.rois[i].AllenID
                         ELSE "AllenID" \notin DOMAIN h5file.nodes[path].attrs
        /\ entry_path # << >> =>
              ("AllenID" \notin DOMAIN h5file.nodes[entry_path].attrs
                   => entry_roi.AllenID < 0)


--------------------------------------------------------------------------
(* Properties of the merged outline *)

\* joint and per-hemisphere Alignments that move the outlines by half a pixel
OutlineAlignments ==
    { Alignment(Translation(Num(0), Num(0)), Translation(Num(0), Num(0)), FALSE),
      Alignment(Translation(Rat(1, 2), Num(0)), Translation(Rat(1, 2), Num(0)), FALSE),
      Alignment(Translation(Num(1), Num(0)), Translation(Num(0), Num(0)), TRUE) }

InitOutline ==
    /\ pc = "batch"
    /\ error = << >>
    /\ reference = ReferenceLandmarks
    /\ target = NoValue
    /\ likelihood_threshold = << >>
    /\ separate_sides = "None"
    /\ validated_pair = NoValue
    /\ alignment = NoValue
    /\ inverted = NoValue
    /\ written = << >>
    /\ table = NoValue
    /\ landmarks = NoValue
    /\ warped = NoValue
    /\ loaded \in SeqsUpTo(OutlineAlignments, MaxRows)
    /\ metadata \in SeqsUpTo(SampleRows, MaxRows)
    /\ reference_rois = ROISet("__reference__", -1, -1, << >>)
    /\ outline_rois = ReferenceOutlines
    /\ resize \in BOOLEAN
    /\ rowidx = 0
    /\ sets = << >>
    /\ roisets = NoValue
    /\ roiset = NoValue
    /\ h5file = NoValue
    /\ reloaded = NoValue
    /\ InitAlgebraIdle
    /\ InitDlcIdle
    /\ InitLaterIdle

SpecOutline == InitOutline /\ [][NextRois]_vars

\* the pixels where the mask is not zero
Covered(mask) ==
    { << x, y >> \in (1..MaskWidth(mask)) \X (1..MaskHeight(mask)) : mask.data[y][x] # 0 }

\* C23: in every ROISet generated, the merged 'outline' mask (the uint8 sum of
\* the two warped outline masks) is nonzero at a pixel exactly when at least
\* one of the two warped outline masks is nonzero there: the 8-bit addition
\* never wraps a covered pixel to 0
C23_MergedOutlineCovers ==
    \A k \in 1..Len(sets) :
        Covered(sets[k].rois[1].mask)
            = Covered(sets[k].rois[2].mask) \cup Covered(sets[k].rois[3].mask)



--------------------------------------------------------------------------
(* images.py: InputImages, write_rescaled_video, write_metadata_table *)

\* an image array: ndim 2 is one frame, ndim 3 a stack of frames
ImageArray(ndim, frames) == [ndim |-> ndim, frames |-> frames]

\* img.shape of a frame, (height, width)
FrameShape(img) == << MaskHeight(img.frames[1]), MaskWidth(img.frames[1]) >>

\* InputImages.__post_init__: image_indexer and page_indexer, from image_idx on
RECURSIVE ImageIndexer(_, _)
ImageIndexer(pages, image_idx) ==
    IF image_idx >= Len(pages) THEN << >>
    ELSE [p \in 1..pages[image_idx + 1] |-> image_idx] \o ImageIndexer(pages, image_idx + 1)

RECURSIVE PageIndexer(_, _)
PageIndexer(pages, image_idx) ==
    IF image_idx >= Len(pages) THEN << >>
    ELSE [p \in 1..pages[image_idx + 1] |-> p - 1] \o PageIndexer(pages, image_idx + 1)

InputImages(pages, arrays) ==
    [pages |-> pages, images |-> arrays,
     shapes |-> [i \in 1..Len(arrays) |-> FrameShape(arrays[i])],
     image_indexer |-> ImageIndexer(pages, 0),
     page_indexer |-> PageIndexer(pages, 0)]

\* the first page of the image, whatever the index
InputImagesGetItem_firstPage(self, idx) ==
    IF idx >= Len(self.image_indexer)
    THEN Raise("IndexError", "InputImages.__getitem__")
    ELSE Return(self.images[self.image_indexer[idx + 1] + 1].frames[1])

\* InputImages.__getitem__(idx), idx >= 0
InputImagesGetItem(self, idx) ==
    IF idx >= Len(self.image_indexer)
    THEN Raise("IndexError", "InputImages.__getitem__")
    ELSE IF self.pages[self.image_indexer[idx + 1] + 1] > 1
    THEN Return(self.images[self.image_indexer[idx + 1] + 1].frames[self.page_indexer[idx + 1] + 1])
    ELSE Return(self.images[self.image_indexer[idx + 1] + 1].frames[1])

\* InputImages.__iter__: the frames it yields, from the image at i on
RECURSIVE InputImagesIter(_, _)
InputImagesIter(self, i) ==
    IF i > Len(self.pages) THEN << >>
    ELSE (IF self.pages[i] = 1
          THEN << self.images[i].frames[1] >>
          ELSE [page \in 1..self.pages[i] |-> self.images[i].frames[page]])
         \o InputImagesIter(self, i + 1)

\* np.stack([rimg, rimg, rimg], axis=-1) of the frame resized to the canvas
Rescaled(frame) ==
    Then(Resize(frame, VIDEO_FRAME_SIZE, "INTER_LINEAR"),
         << Resize(frame, VIDEO_FRAME_SIZE, "INTER_LINEAR").val,
            Resize(frame, VIDEO_FRAME_SIZE, "INTER_LINEAR").val,
            Resize(frame, VIDEO_FRAME_SIZE, "INTER_LINEAR").val >>)

\* write_rescaled_video: the frames appended to rescaled, from the image at i on
RECURSIVE RescaledFrom(_, _)
RescaledFrom(self, i) ==
    IF i > Len(self.pages) THEN << >>
    ELSE (IF self.pages[i] > 1
          THEN [page \in 1..self.pages[i] |-> Rescaled(self.images[i].frames[page])]
          ELSE << Rescaled(self.images[i].frames[1]) >>)
         \o RescaledFrom(self, i + 1)

write_rescaled_video(self) ==
    IF FirstError(RescaledFrom(self, 1)) # << >>
    THEN [err |-> FirstError(RescaledFrom(self, 1)), val |-> NoValue]
    ELSE Return(Values(RescaledFrom(self, 1)))

\* write_metadata_table: the rows appended to data, from the image at idx on
RECURSIVE MetadataFrom(_, _, _)
MetadataFrom(self, names, idx) ==
    IF idx >= Len(self.pages) THEN << >>
    ELSE [page \in 1..self.pages[idx + 1] |->
             [Image |-> names[idx + 1], Frame |-> page,
              Width |-> self.shapes[idx + 1][2], Height |-> self.shapes[idx + 1][1],
              TotalFrames |-> self.pages[idx + 1]]]
         \o MetadataFrom(self, names, idx + 1)

write_metadata_table(self, names) ==
    IF Len(names) # Len(self.pages)
    THEN Raise("ValueError", "write_metadata_table")
    ELSE Return(MetadataFrom(self, names, 0))


--------------------------------------------------------------------------
(* procs.py: run_image_collection, run_rois_generation and the lookup of
   run_packaging_all_results *)

oldVars == << alignVars, tableVars, warpVars, hdfVars, algebraVars, dlcVars, entryVars,
              batchVars, processVars >>

\* run_image_collection: the names, the video, then the metadata table
RunImageCollection ==
    /\ pc = "collect"
    /\ LET names == unique_names_from_path(image_paths)
       IN  IF names.err # << >>
           THEN /\ pc' = "error"
                /\ error' = names.err
                /\ UNCHANGED << image_names, video, metadata >>
           ELSE IF write_rescaled_video(input_images).err # << >>
           THEN /\ pc' = "error"
                /\ error' = write_rescaled_video(input_images).err
                /\ image_names' = names.val
                /\ UNCHANGED << video, metadata >>
           ELSE IF write_metadata_table(input_images, names.val).err # << >>
           THEN /\ pc' = "error"
                /\ error' = write_metadata_table(input_images, names.val).err
                /\ image_names' = names.val
                /\ video' = write_rescaled_video(input_images).val
                /\ UNCHANGED metadata
           ELSE /\ pc' = "collected"
                /\ image_names' = names.val
                /\ video' = write_rescaled_video(input_images).val
                /\ metadata' = write_metadata_table(input_images, names.val).val
                /\ UNCHANGED error
    /\ UNCHANGED << oldVars, genVars, image_paths, input_images, yielded, got,
                    reference_rois, outline_rois, resize, rowidx, sets, roisets >>

\* for frame in images: the next frame yielded
IterNext ==
    /\ pc = "collected"
    /\ Len(yielded) < Len(InputImagesIter(input_images, 1))
    /\ yielded' = Append(yielded, InputImagesIter(input_images, 1)[Len(yielded) + 1])
    /\ UNCHANGED << pc, error, oldVars, roiVars, genVars,
                    image_paths, input_images, image_names, video, got >>

\* images[k] for the next k
GetItem ==
    /\ pc = "collected"
    /\ InputImagesGetItem(input_images, Len(got)).err = << >>
    /\ got' = Append(got, InputImagesGetItem(input_images, Len(got)).val)
    /\ UNCHANGED << pc, error, oldVars, roiVars, genVars,
                    image_paths, input_images, image_names, video, yielded >>

\* run_rois_generation up to the call of generate_rois_batch: the tables are
\* read, then load_reference_ROIs() and load_reference_outlines() open the
\* reference files
LoadAssets ==
    /\ pc = "collected"
    /\ IF assets
       THEN pc' = "batch" /\ UNCHANGED error
       ELSE pc' = "error" /\ error' = << "FileNotFoundError", "load_reference_ROIs" >>
    /\ UNCHANGED << oldVars, roiVars, collectVars, genVars >>

\* run_rois_generation: the body of the loop for the next ROISet of the batch
WriteRoiFile ==
    /\ pc = "generated"
    /\ Len(outfiles) < Len(roisets)
    /\ LET outfile == GenerationOutfile(roisets[Len(outfiles) + 1], file_type)
       IN  IF outfile.err # << >>
           THEN /\ pc' = "error"
                /\ error' = outfile.err
                /\ UNCHANGED << outfiles, roi_files >>
           ELSE /\ outfiles' = Append(outfiles, outfile.val)
                /\ roi_files' = (outfile.val :> Len(outfiles) + 1) @@ roi_files
                /\ UNCHANGED << pc, error >>
    /\ UNCHANGED << oldVars, roiVars, collectVars, file_type, assets, looked_up >>

\* run_rois_generation: return output_dir
GenerationReturn ==
    /\ pc = "generated"
    /\ Len(outfiles) = Len(roisets)
    /\ pc' = "written"
    /\ UNCHANGED << error, oldVars, roiVars, collectVars, genVars >>

\* run_packaging_all_results: _get_roifile(row) for the next row
GetRoifile ==
    /\ pc = "written"
    /\ Len(looked_up) < Len(metadata)
    /\ LET roifile == get_roifile(metadata[Len(looked_up) + 1])
       IN  IF roifile.err # << >>
           THEN /\ pc' = "error"
                /\ error' = roifile.err
                /\ UNCHANGED looked_up
           ELSE /\ looked_up' = Append(looked_up, roifile.val)
                /\ UNCHANGED << pc, error >>
    /\ UNCHANGED << oldVars, roiVars, collectVars, file_type, assets, outfiles, roi_files >>

\* the image files of a run: up to MaxImages paths, each of 1..MaxPages frames
MaxImages == 2

MaxPages == 2

SamplePaths ==
    { << << "x", "" >>, << "a", ".tif" >> >>,
      << << "y", "" >>, << "a", ".tif" >> >>,
      << << "x", "" >>, << "a", ".png" >> >> }

\* frame `page` of the image at position i: a canvas-sized raster of one value
SampleFrame(i, page) ==
    Mask("uint8", [y \in 1..FrameSide |-> [x \in 1..FrameSide |-> 10 * i + page]])

\* load_images: a one-page image is a 2-D array, the others are stacks
SampleInputImages(pages) ==
    InputImages(pages,
                [i \in 1..Len(pages) |->
                    ImageArray(IF pages[i] = 1 THEN 2 ELSE 3,
                               [page \in 1..pages[i] |-> SampleFrame(i, page)])])

InitCollect ==
    /\ pc = "collect"
    /\ error = << >>
    /\ reference = ReferenceLandmarks
    /\ target = NoValue
    /\ likelihood_threshold = << >>
    /\ separate_sides = "None"
    /\ validated_pair = NoValue
    /\ alignment = NoValue
    /\ inverted = NoValue
    /\ written = << >>
    /\ table = NoValue
    /\ landmarks = NoValue
    /\ warped = NoValue
    /\ loaded \in SeqsUpTo(RoiAlignments, MaxRows)
    /\ metadata = << >>
    /\ reference_rois \in SampleReferences
    /\ outline_rois = ReferenceOutlines
    /\ resize = TRUE
    /\ rowidx = 0
    /\ sets = << >>
    /\ roisets = NoValue
    /\ roiset = NoValue
    /\ h5file = NoValue
    /\ reloaded = NoValue
    /\ InitAlgebraIdle
    /\ InitDlcIdle
    /\ InitEntryIdle
    /\ InitBatchIdle
    /\ InitProcessIdle
    /\ image_paths \in SeqsUpTo(SamplePaths, MaxImages)
    /\ input_images \in {SampleInputImages(pages) :
                            pages \in [1..Len(image_paths) -> 1..MaxPages]}
    /\ image_names = << >>
    /\ video = << >>
    /\ yielded = << >>
    /\ got = << >>
    /\ file_type \in {"hdf", "matlab", "csv"}
    /\ assets \in BOOLEAN
    /\ outfiles = << >>
    /\ roi_files = << >>
    /\ looked_up = << >>

NextCollect == RunImageCollection \/ IterNext \/ GetItem

SpecCollect == InitCollect /\ [][NextCollect]_vars

NextGeneration ==
    \/ RunImageCollection
    \/ LoadAssets
    \/ GenerateRoisRow
    \/ GenerateRoisReturn
    \/ WriteRoiFile
    \/ GenerationReturn
    \/ GetRoifile

SpecGeneration == InitCollect /\ [][NextGeneration]_vars

--------------------------------------------------------------------------
(* Properties of the ROI files *)

\* C24: for every metadata row, the ROI file path run_packaging_all_results
\* looks up is exactly the path to which run_rois_generation, run with file
\* type 'hdf' on the same directory, wrote that row's ROISet, for every image
\* name unique_names_from_path can produce, names with a parent directory
\* included
C24_LookupFindsWritten ==
    (pc = "written" /\ file_type = "hdf") =>
        \A k \in 1..Len(looked_up) : looked_up[k] = outfiles[k]

\* C25: run_rois_generation writes the ROISets of two different metadata rows
\* (different image, or same image and different frame) to two different
\* paths: no frame's file is overwritten by another's
C25_DistinctFiles ==
    \A j, k \in 1..Len(outfiles) :
        (j # k /\ << metadata[j].Image, metadata[j].Frame >>
                     # << metadata[k].Image, metadata[k].Frame >>)
            => outfiles[j] # outfiles[k]


--------------------------------------------------------------------------
(* alignment.py: align_dlc_landmarks; base.py: landmarks_from_dlc_output *)

\* landmarks_from_dlc_output: one Landmarks per row, the columns read in the
\* order of LANDMARK_IDS; a missing column is a KeyError
landmarks_from_dlc_output(output) ==
    IF Len(output.table.rows) > 0 /\ ~(Range(LowerIDs) \subseteq Range(output.table.columns))
    THEN Raise("KeyError", "landmarks_from_dlc_output")
    ELSE Return([r \in 1..Len(output.table.rows) |->
                    Landmarks(TaxonomyNames,
                              [i \in 1..Len(LowerIDs) |-> output.table.rows[r][LowerIDs[i]]])])

\* the target of align_dlc_landmarks: a DLCOutput, one Landmarks, or an
\* iterable of Landmarks
TargetArg(kind, value) == [kind |-> kind, value |-> value]

TargetFrames(arg) ==
    CASE arg.kind = "DLCOutput" -> landmarks_from_dlc_output(arg.value)
      [] arg.kind = "Landmarks" -> Return(<< arg.value >>)
      [] OTHER                  -> Return(arg.value)

\* estimate_warp_matrix(validate_landmarks(single, reference, ...), ...)
AlignSingle(single, ref, opt_threshold, forced) ==
    IF validate_landmarks(single, ref, opt_threshold).err # << >>
    THEN validate_landmarks(single, ref, opt_threshold)
    ELSE estimate_warp_matrix(validate_landmarks(single, ref, opt_threshold).val, forced)

AlignAll(frames, ref, opt_threshold, forced) ==
    IF FirstError([k \in 1..Len(frames) |-> AlignSingle(frames[k], ref, opt_threshold, forced)])
           # << >>
    THEN [err |-> FirstError([k \in 1..Len(frames) |->
                                 AlignSingle(frames[k], ref, opt_threshold, forced)]),
          val |-> NoValue]
    ELSE Return([k \in 1..Len(frames) |->
                    AlignSingle(frames[k], ref, opt_threshold, forced).val])

\* separate_sides left to estimate_warp_matrix's own default
align_dlc_landmarks_auto(arg, ref, kwargs) ==
    IF ~(DOMAIN kwargs \subseteq {"likelihood_threshold", "separate_sides"})
    THEN Raise("TypeError", "align_dlc_landmarks")
    ELSE IF TargetFrames(arg).err # << >>
    THEN TargetFrames(arg)
    ELSE AlignAll(TargetFrames(arg).val, ref,
                  IF "likelihood_threshold" \in DOMAIN kwargs
                  THEN kwargs.likelihood_threshold ELSE << >>,
                  IF "separate_sides" \in DOMAIN kwargs
                  THEN kwargs.separate_sides ELSE "None")

\* align_dlc_landmarks(target, reference, **kwargs): the parameters that can
\* be passed by keyword are likelihood_threshold (default None) and
\* separate_sides (default False); any other keyword is a TypeError
align_dlc_landmarks(arg, ref, kwargs) ==
    IF ~(DOMAIN kwargs \subseteq {"likelihood_threshold", "separate_sides"})
    THEN Raise("TypeError", "align_dlc_landmarks")
    ELSE IF TargetFrames(arg).err # << >>
    THEN TargetFrames(arg)
    ELSE AlignAll(TargetFrames(arg).val, ref,
                  IF "likelihood_threshold" \in DOMAIN kwargs
                  THEN kwargs.likelihood_threshold ELSE << >>,
                  IF "separate_sides" \in DOMAIN kwargs
                  THEN kwargs.separate_sides ELSE "False")

AlignDlcLandmarks ==
    /\ pc = "toalign"
    /\ IF align_dlc_landmarks(batch_target, reference, batch_kwargs).err # << >>
       THEN /\ pc' = "error"
            /\ error' = align_dlc_landmarks(batch_target, reference, batch_kwargs).err
            /\ UNCHANGED batch_alignment
       ELSE /\ pc' = "aligned"
            /\ batch_alignment' = align_dlc_landmarks(batch_target, reference, batch_kwargs).val
            /\ UNCHANGED error
    /\ UNCHANGED << alignVars, tableVars, warpVars, roiVars, hdfVars, algebraVars, dlcVars,
                    entryVars, collectVars, genVars, processVars, batch_target, batch_kwargs >>

\* detected frames: all landmarks certain and in place, the left ones moved,
\* only the left ones certain, and none certain
SampleFrames ==
    { TargetFrame(0, 0, [i \in 1..9 |-> Rat(99995, 100000)]),
      TargetFrame(1, 0, [i \in 1..9 |-> Rat(99995, 100000)]),
      TargetFrame(0, 1, [i \in 1..9 |-> IF i <= 3 THEN Rat(99995, 100000) ELSE Rat(9999, 10000)]),
      TargetFrame(0, 0, [i \in 1..9 |-> Rat(9999, 10000)]) }

\* the table DeepLabCut would hold for the frames
TableOf(frames) ==
    DLCTable(LowerIDs,
             [k \in 1..Len(frames) |->
                 [c \in Range(LowerIDs) |-> frames[k].coords[IndexOf(LowerIDs, c)]]])

SampleTargets ==
    {TargetArg("Landmarks", f) : f \in SampleFrames}
        \cup {TargetArg("Iterable", fs) : fs \in SeqsUpTo(SampleFrames, MaxRows)}
        \cup {TargetArg("DLCOutput", DLCOutput(TableOf(fs), << >>)) :
                 fs \in SeqsUpTo(SampleFrames, MaxRows)}

SampleKwargs ==
    { << >> }
        \cup {[separate_sides |-> v] : v \in {"None", "True", "False"}}
        \cup {[likelihood_threshold |-> << Rat(1, 2) >>, separate_sides |-> "None"]}

InitBatch ==
    /\ pc = "toalign"
    /\ error = << >>
    /\ reference = ReferenceLandmarks
    /\ target = NoValue
    /\ likelihood_threshold = << >>
    /\ separate_sides = "None"
    /\ validated_pair = NoValue
    /\ alignment = NoValue
    /\ inverted = NoValue
    /\ written = << >>
    /\ table = NoValue
    /\ loaded = << >>
    /\ landmarks = NoValue
    /\ warped = NoValue
    /\ InitRoiIdle
    /\ InitAlgebraIdle
    /\ InitDlcIdle
    /\ InitEntryIdle
    /\ InitCollectIdle
    /\ InitGenIdle
    /\ InitProcessIdle
    /\ batch_target \in SampleTargets
    /\ batch_kwargs \in SampleKwargs
    /\ batch_alignment = << >>

NextBatch == AlignDlcLandmarks

SpecBatch == InitBatch /\ [][NextBatch]_vars

--------------------------------------------------------------------------
(* Properties of align_dlc_landmarks *)

\* the frames of the target passed, in order
BatchFrames ==
    CASE batch_target.kind = "Landmarks" -> << batch_target.value >>
      [] batch_target.kind = "Iterable"  -> batch_target.value
      [] OTHER -> [r \in 1..Len(batch_target.value.table.rows) |->
                      Landmarks(TaxonomyNames,
                                [i \in 1..9 |-> batch_target.value.table.rows[r][LowerIDs[i]]])]

BatchThreshold ==
    IF "likelihood_threshold" \in DOMAIN batch_kwargs
    THEN batch_kwargs.likelihood_threshold[1]
    ELSE LANDMARK_LIKELIHOOD_THRESHOLD

\* the landmarks of frame k on the side that validation keeps
KeptOnSide(k, ids) ==
    { i \in ids : RGreater(BatchFrames[k].coords[i][3], BatchThreshold) }

\* the joint fit, and the fit of one side, of frame k
FitOf(k, ids) ==
    LET kept == SelectIdx([i \in 1..9 |-> i], [i \in 1..9 |-> i \in KeptOnSide(k, ids)])
    IN  estimate([j \in 1..Len(kept) |-> << ReferenceLandmarks.coords[kept[j]][1],
                                             ReferenceLandmarks.coords[kept[j]][2] >>],
                 [j \in 1..Len(kept) |-> << BatchFrames[k].coords[kept[j]][1],
                                             BatchFrames[k].coords[kept[j]][2] >>])

\* C29: align_dlc_landmarks returns exactly one Alignment per target frame, in
\* input order (a single Landmarks gives a 1-tuple).  When the caller does not
\* pass separate_sides every Alignment is joint, whatever validation kept;
\* the split is decided from the landmarks kept only when separate_sides=None
\* is passed explicitly
C29_OnePerFrameJointByDefault ==
    pc = "aligned" =>
        /\ Len(batch_alignment) = Len(BatchFrames)
        /\ batch_target.kind = "Landmarks" => Len(batch_alignment) = 1
        /\ \A k \in 1..Len(batch_alignment) :
              LET split ==
                      IF "separate_sides" \notin DOMAIN batch_kwargs THEN FALSE
                      ELSE IF batch_kwargs.separate_sides = "None"
                      THEN /\ Cardinality(KeptOnSide(k, {1, 2, 3})) > 2
                           /\ Cardinality(KeptOnSide(k, {7, 8, 9})) > 2
                      ELSE batch_kwargs.separate_sides = "True"
              IN  /\ batch_alignment[k].separate = split
                  /\ ~split => /\ batch_alignment[k].left = FitOf(k, 1..9)
                               /\ batch_alignment[k].right = FitOf(k, 1..9)
                  /\ split => /\ batch_alignment[k].left = FitOf(k, 1..6)
                              /\ batch_alignment[k].right = FitOf(k, 4..9)

\* two frames aligned with no separate_sides passed, the second moved on the
\* left, both with enough landmarks kept on each side for a split
C29_Witness ==
    /\ pc = "aligned"
    /\ "separate_sides" \notin DOMAIN batch_kwargs
    /\ Len(batch_alignment) = 2
    /\ batch_alignment[1] # batch_alignment[2]
    /\ \A k \in 1..2 : /\ Cardinality(KeptOnSide(k, {1, 2, 3})) > 2
                       /\ Cardinality(KeptOnSide(k, {7, 8, 9})) > 2
                       /\ ~batch_alignment[k].separate


--------------------------------------------------------------------------
(* procs.py: run_landmark_alignment *)

\* run_landmark_alignment: the Alignments, from the DLCOutput read from the
\* input directory; kwargs are the keywords it passes to align_dlc_landmarks
RunAlignment(dlc_in, kwargs) ==
    IF landmarks_from_dlc_output(dlc_in).err # << >>
    THEN landmarks_from_dlc_output(dlc_in)
    ELSE align_dlc_landmarks(TargetArg("Iterable", landmarks_from_dlc_output(dlc_in).val),
                             ReferenceLandmarks, kwargs)

\* likelihood_threshold, min_valid_points and separate_sides are all passed on
RunLandmarkAlignment ==
    /\ pc = "torun"
    /\ IF RunAlignment(dlc_orig, batch_kwargs).err # << >>
       THEN /\ pc' = "error"
            /\ error' = RunAlignment(dlc_orig, batch_kwargs).err
            /\ UNCHANGED << batch_alignment, written, table, dlc_orig, dlc_new >>
       ELSE /\ batch_alignment' = RunAlignment(dlc_orig, batch_kwargs).val
            /\ written' = RunAlignment(dlc_orig, batch_kwargs).val
            /\ table' = AlignmentTableCsv(RunAlignment(dlc_orig, batch_kwargs).val)
            /\ dlc_orig' = update_dlc_landmarks(dlc_orig, ReferenceLandmarks,
                               << RunAlignment(dlc_orig, batch_kwargs).val >>).after
            /\ IF update_dlc_landmarks(dlc_orig, ReferenceLandmarks,
                       << RunAlignment(dlc_orig, batch_kwargs).val >>).err # << >>
               THEN /\ pc' = "error"
                    /\ error' = update_dlc_landmarks(dlc_orig, ReferenceLandmarks,
                                    << RunAlignment(dlc_orig, batch_kwargs).val >>).err
                    /\ UNCHANGED dlc_new
               ELSE /\ pc' = "ran"
                    /\ dlc_new' = update_dlc_landmarks(dlc_orig, ReferenceLandmarks,
                                      << RunAlignment(dlc_orig, batch_kwargs).val >>).val
                    /\ UNCHANGED error
    /\ UNCHANGED << alignVars, loaded, warpVars, roiVars, hdfVars, algebraVars, dlc_alignment,
                    entryVars, collectVars, genVars, processVars, batch_target, batch_kwargs >>

SampleRunKwargs ==
    { [likelihood_threshold |-> t, min_valid_points |-> m, separate_sides |-> s] :
        t \in {<< >>, << Rat(1, 2) >>}, m \in {"None", "3"}, s \in {"None", "True", "False"} }

InitRun ==
    /\ pc = "torun"
    /\ error = << >>
    /\ reference = ReferenceLandmarks
    /\ target = NoValue
    /\ likelihood_threshold = << >>
    /\ separate_sides = "None"
    /\ validated_pair = NoValue
    /\ alignment = NoValue
    /\ inverted = NoValue
    /\ written = << >>
    /\ table = NoValue
    /\ loaded = << >>
    /\ landmarks = NoValue
    /\ warped = NoValue
    /\ InitRoiIdle
    /\ InitAlgebraIdle
    /\ InitEntryIdle
    /\ InitCollectIdle
    /\ InitGenIdle
    /\ InitProcessIdle
    /\ \E fs \in SeqsUpTo(SampleFrames, MaxRows) :
          dlc_orig \in {DLCOutput(TableOf(fs), imgs) :
                           imgs \in {<< >>, << [i \in 1..Len(fs) |-> ColumnMask(1)] >>}}
    /\ dlc_alignment = << >>
    /\ dlc_new = NoValue
    /\ batch_target = NoValue
    /\ batch_kwargs \in SampleRunKwargs
    /\ batch_alignment = << >>

NextRun == RunLandmarkAlignment

SpecRun == InitRun /\ [][NextRun]_vars

\* C26: run_landmark_alignment, given F frames of predicted landmarks (here
\* frames whose nine landmarks all pass the threshold), completes without
\* error and writes an alignment table of exactly F rows, row k being the
\* Alignment estimated from frame k, followed by the aligned-landmarks table
\* for the same F frames
C26_RunWritesOneRowPerFrame ==
    (/\ pc \in {"ran", "error"}
     /\ \A r \in 1..Len(dlc_orig.table.rows) : \A c \in Range(LowerIDs) :
           RGreater(dlc_orig.table.rows[r][c][3], LANDMARK_LIKELIHOOD_THRESHOLD))
        => /\ pc = "ran"
           /\ Len(table.lines) = Len(dlc_orig.table.rows)
           /\ Len(dlc_new.table.rows) = Len(dlc_orig.table.rows)
           /\ \A k \in 1..Len(written) :
                 written[k] = AlignSingle(landmarks_from_dlc_output(dlc_orig).val[k],
                                          ReferenceLandmarks,
                                          batch_kwargs.likelihood_threshold,
                                          batch_kwargs.separate_sides).val


--------------------------------------------------------------------------
(* commands/process.py and commands/validate.py: the 'process' command *)

\* validate.image_paths: None (<< >>) for no path or a path that does not exist
validate_image_paths(paths) ==
    IF Len(paths) = 0 \/ \E i \in 1..Len(paths) : ~paths[i].exists
    THEN << >>
    ELSE << paths >>

\* validate.output_directory: Path() for None, never None
validate_output_directory(outdir) ==
    IF outdir = << >> THEN << "." >> ELSE outdir

validate_output_file_type(filetype) ==
    IF filetype \in {"hdf", "matlab"} THEN << filetype >> ELSE << >>

\* run goes on to the steps
Validated(args) ==
    /\ validate_image_paths(args.image_paths) # << >>
    /\ validate_output_directory(args.output_dir) # << >>
    /\ validate_output_file_type(args.output_file_type) # << >>

\* the calls of the try block, in the order they are written
STEPS ==
    << "image collection", "landmark prediction", "landmark alignment",
       "ROI generation", "packaging" >>

Event(kind, name) == << kind, name >>

Completed(evs) == Cardinality({i \in DOMAIN evs : evs[i][1] = "ok"})

\* what a step can do: return, or raise.  run_landmark_alignment, called with
\* min_valid_points, raises in its call of align_dlc_landmarks at the latest
StepOutcomes(name) ==
    IF name = "landmark alignment" THEN {"raise"} ELSE {"ok", "raise"}

\* an exception leaves the function without the finally block
AfterStep_noFinally(outcome, done) ==
    IF outcome = "raise" THEN "raised"
    ELSE IF done = Len(STEPS) THEN "finally" ELSE "steps"

\* where run is after a step: an exception, and the end of the try block,
\* both lead to the finally block
AfterStep(outcome, done) ==
    IF outcome = "raise" \/ done = Len(STEPS) THEN "finally" ELSE "steps"

\* run, up to the try block
ProcessValidate ==
    /\ pc = "process"
    /\ IF Validated(process_args)
       THEN /\ process_dir' = "exists"
            /\ events' = << Event("mkdtemp", "") >>
            /\ pc' = "steps"
       ELSE /\ pc' = "returned"
            /\ UNCHANGED << process_dir, events >>
    /\ UNCHANGED << error, alignVars, tableVars, warpVars, roiVars, hdfVars, algebraVars,
                    dlcVars, entryVars, collectVars, genVars, batchVars, process_args >>

\* the next call of the try block
ProcessStep ==
    /\ pc = "steps"
    /\ \E outcome \in StepOutcomes(STEPS[Completed(events) + 1]) :
          /\ events' = events \o << Event("start", STEPS[Completed(events) + 1]),
                                    Event(outcome, STEPS[Completed(events) + 1]) >>
          /\ error' = IF outcome = "raise"
                      THEN << "Exception", STEPS[Completed(events) + 1] >>
                      ELSE error
          /\ pc' = AfterStep(outcome, Completed(events) + 1)
    /\ UNCHANGED << alignVars, tableVars, warpVars, roiVars, hdfVars, algebraVars,
                    dlcVars, entryVars, collectVars, genVars, batchVars,
                    process_args, process_dir >>

\* finally: shutil.rmtree(process_dir), then the return or the exception
ProcessCleanup ==
    /\ pc = "finally"
    /\ process_dir' = "removed"
    /\ events' = Append(events, Event("rmtree", ""))
    /\ pc' = IF error = << >> THEN "returned" ELSE "raised"
    /\ UNCHANGED << error, alignVars, tableVars, warpVars, roiVars, hdfVars, algebraVars,
                    dlcVars, entryVars, collectVars, genVars, batchVars, process_args >>

SampleImagePaths ==
    { [path |-> p, exists |-> e] : p \in {"a.tif", "b.tif"}, e \in BOOLEAN }

InitProcess ==
    /\ pc = "process"
    /\ error = << >>
    /\ reference = ReferenceLandmarks
    /\ target = NoValue
    /\ likelihood_threshold = << >>
    /\ separate_sides = "None"
    /\ validated_pair = NoValue
    /\ alignment = NoValue
    /\ inverted = NoValue
    /\ written = << >>
    /\ table = NoValue
    /\ loaded = << >>
    /\ landmarks = NoValue
    /\ warped = NoValue
    /\ InitRoiIdle
    /\ InitAlgebraIdle
    /\ InitDlcIdle
    /\ InitEntryIdle
    /\ InitCollectIdle
    /\ InitGenIdle
    /\ InitBatchIdle
    /\ process_args \in
          [image_paths : {<< >>} \cup SeqsUpTo(SampleImagePaths, MaxImages),
           output_dir : {<< >>, << "out" >>},
           output_file_type : {"hdf", "matlab", "csv"}]
    /\ process_dir = "none"
    /\ events = << >>

NextProcess == ProcessValidate \/ ProcessStep \/ ProcessCleanup

SpecProcess == InitProcess /\ [][NextProcess]_vars

--------------------------------------------------------------------------
(* Properties of the 'process' command *)

\* the position of the step in the order of the command
StepNumber(name) == CHOOSE k \in 1..Len(STEPS) : STEPS[k] = name

\* the steps started so far, in the order they started
Started == SelectSeq(events, LAMBDA e : e[1] = "start")

\* C27: in every execution of 'process' that passes validation the five steps
\* run in the fixed order image collection, landmark prediction, landmark
\* alignment, ROI generation, packaging; a step starts only after every
\* earlier step completed without error, and the temporary processing
\* directory is removed after the last executed step, on success and when a
\* step raises.  When validation fails no step runs and no temporary
\* directory is created
C27_StepsInOrderThenCleanup ==
    pc \in {"process", "steps", "finally", "returned", "raised"} =>
        /\ ~Validated(process_args) => (events = << >> /\ process_dir = "none")
        /\ events # << >> => events[1] = Event("mkdtemp", "")
        /\ \A k \in 1..Len(Started) : Started[k][2] = STEPS[k]
        /\ \A i \in 1..Len(events) :
              events[i][1] = "start" =>
                  /\ \A n \in 1..(StepNumber(events[i][2]) - 1) :
                        \E j \in 1..(i - 1) : events[j] = Event("ok", STEPS[n])
                  /\ \A j \in 1..(i - 1) : events[j][1] \notin {"raise", "rmtree"}
        /\ (pc \in {"returned", "raised"} /\ Validated(process_args)) =>
              /\ process_dir = "removed"
              /\ events[Len(events)] = Event("rmtree", "")
              /\ \A j \in 1..(Len(events) - 1) : events[j][1] # "rmtree"
        /\ process_dir = "removed" => events[Len(events)] = Event("rmtree", "")

\* a validated run whose third step raised after the first two completed,
\* with the temporary directory removed
C27_Witness ==
    /\ pc = "raised"
    /\ Validated(process_args)
    /\ Len(Started) = 3
    /\ events[Len(events) - 1] = Event("raise", "landmark alignment")
    /\ process_dir = "removed"


\* C28: run_rois_generation writes ROI files only after the assets were
\* loaded and the projection succeeded for every row: if an asset is missing
\* or the projection of any row fails, the run fails and no ROI file has been
\* written
C28_NoFileUnlessAllProjected ==
    pc \in {"collect", "collected", "batch", "generated", "written", "error"} =>
        /\ ~assets => (DOMAIN roi_files = {} /\ pc \in {"collect", "collected", "error"})
        /\ pc \in {"batch", "error"} => DOMAIN roi_files = {}
        /\ DOMAIN roi_files # {} =>
              /\ pc \in {"generated", "written"}
              /\ Len(roisets) = Len(metadata)
              /\ \A k \in 1..Len(metadata) :
                    /\ roisets[k].image_name = metadata[k].Image
                    /\ roisets[k].frame_idx = metadata[k].Frame

\* the projection of the second row failed after the first row's succeeded,
\* and the directory holds no ROI file
C28_Witness ==
    /\ pc = "error"
    /\ error[2] \notin {"unique_names_from_path", "load_reference_ROIs", "get_roi_file_suffix"}
    /\ Len(sets) >= 1
    /\ Len(sets) < Len(metadata)
    /\ DOMAIN roi_files = {}


--------------------------------------------------------------------------
(* Properties of the collected images *)

\* frame `page` (from 1) of image i (from 1) of the files collected
FrameOfImage(i, page) == input_images.images[i].frames[page]

\* the number of frames before image i
FramesBefore(i) == SumSeq([j \in 1..(i - 1) |-> input_images.pages[j]])

\* C30: write_metadata_table emits exactly one row per frame (the sum of the
\* page counts), in the order in which write_rescaled_video emits the frames
\* and iteration over InputImages yields them, Frame counting 1..TotalFrames
\* within each image: row k describes frame k, and InputImages[k] is the k-th
\* frame that iteration yields
C30_RowPerFrameInOrder ==
    pc = "collected" =>
        /\ Len(metadata) = SumSeq(input_images.pages)
        /\ Len(video) = SumSeq(input_images.pages)
        /\ \A i \in 1..Len(input_images.pages) : \A page \in 1..input_images.pages[i] :
              LET k == FramesBefore(i) + page
              IN  /\ metadata[k].Image = image_names[i]
                  /\ metadata[k].Frame = page
                  /\ metadata[k].TotalFrames = input_images.pages[i]
                  /\ metadata[k].Width = MaskWidth(FrameOfImage(i, page))
                  /\ metadata[k].Height = MaskHeight(FrameOfImage(i, page))
                  /\ video[k] = << FrameOfImage(i, page), FrameOfImage(i, page),
                                   FrameOfImage(i, page) >>
                  /\ k <= Len(yielded) => yielded[k] = FrameOfImage(i, page)
                  /\ k <= Len(got) => got[k] = FrameOfImage(i, page)
        /\ Len(yielded) <= SumSeq(input_images.pages)
        /\ Len(got) <= SumSeq(input_images.pages)

\* two images, the first of two frames, all frames yielded and read by index
C30_Witness ==
    /\ pc = "collected"
    /\ Len(input_images.pages) = 2
    /\ input_images.pages[1] = 2
    /\ Len(metadata) = 3
    /\ Len(yielded) = 3
    /\ Len(got) = 3
    /\ got[2] # got[1]
    /\ metadata[3].Frame = 1

==========================================================================
